---- MODULE Spec2Model ----
(***************************************************************************)
(* xrouter: one chat-completion request walking the handler chain          *)
(* (Transform, Tokenize, LimitCheck, Completion, UsageRecord), the         *)
(* provider driver reading the upstream SSE stream, the billing client     *)
(* and the HTTP surface that frames the result for the client.             *)
(***************************************************************************)
EXTENDS Integers, Sequences, FiniteSets, TLC

\* ---------------------------------------------------------------- bounds
MaxFrames == 3

\* amount the billing service puts on hold for a paid model
HoldAmount == 5

\* ------------------------------------------------------------ data shapes
\* one SSE data frame of the upstream, after parse_sse_line
Frame(k, f, u, c, g) == [kind |-> k, fin |-> f, usage |-> u, code |-> c, geo |-> g]

NoChunk == Frame("none", FALSE, FALSE, 0, FALSE)

DoneFrame == Frame("done", FALSE, FALSE, 0, FALSE)

ChunkFrames == {Frame("chunk", f, u, 0, FALSE) : f \in BOOLEAN, u \in BOOLEAN}

\* embedded error objects: one with an explicit code, one geo-blocked
ErrorFrames == {Frame("error", FALSE, FALSE, 429, FALSE), Frame("error", FALSE, FALSE, 429, TRUE)}

\* the zero-usage chunk the Ollama driver builds at [DONE]
SyntheticChunk == Frame("chunk", FALSE, TRUE, 0, FALSE)

Providers == {"xrouter", "ollama"}

FrameAlphabet(p) == IF p = "xrouter" THEN ChunkFrames \cup {DoneFrame} \cup ErrorFrames ELSE ChunkFrames \cup {DoneFrame}

Scripts(p) == UNION {[1..n -> FrameAlphabet(p)] : n \in 0..MaxFrames}

NoError == [code |-> 0, type |-> "", msg |-> ""]

ProviderError(c, t, m) == [code |-> c, type |-> t, msg |-> m]

\* ------------------------------------------------------- billing client
\* an answer of the billing service: status 0 is a network failure,
\* amount -1 is a JSON null
Reply(s, a) == [status |-> s, amount |-> a]

NoReply == Reply(-1, -1)

HoldReplies == {Reply(200, HoldAmount), Reply(200, 0), Reply(200, -1), Reply(402, -1), Reply(404, -1), Reply(501, -1), Reply(503, -1), Reply(0, -1)}

BillingReplies == {Reply(200, 0), Reply(404, -1), Reply(501, -1), Reply(503, -1), Reply(0, -1)}

\* the error _make_request raises for a reply, code 0 when it returns data
MakeRequest(r) == IF r.status = 0 THEN 503 ELSE IF r.status >= 400 THEN r.status ELSE 0

ShouldFallback(code) == code \in {500, 502, 503, 504}

\* what a client call hands back: a result, or the error it raises
Returned(a, tx) == [raised |-> FALSE, amount |-> a, tx |-> tx, error |-> NoError]

Raised(e) == [raised |-> TRUE, amount |-> -1, tx |-> "none", error |-> e]

(* a client whose degraded hold would report the amount as held *)
process_cost_with_tokens_fallback_held(r) ==
  LET code == MakeRequest(r) IN
  IF code = 0
    THEN IF r.amount = -1
           THEN Raised(ProviderError(400, "", "Invalid cost processing response format"))
           ELSE Returned(r.amount, "tx")
    ELSE IF code = 402
           THEN Raised(ProviderError(402, "payment_required", "Insufficient funds for request processing"))
           ELSE IF ShouldFallback(code)
                  THEN Returned(HoldAmount, "fallback")
                  ELSE Raised(ProviderError(code, "", "Cost processing with tokens failed"))

process_cost_with_tokens(r) ==
  LET code == MakeRequest(r) IN
  IF code = 0
    THEN IF r.amount = -1
           THEN Raised(ProviderError(400, "", "Invalid cost processing response format"))
           ELSE Returned(r.amount, "tx")
    ELSE IF code = 402
           THEN Raised(ProviderError(402, "payment_required", "Insufficient funds for request processing"))
           ELSE IF ShouldFallback(code)
                  THEN Returned(0, "fallback")
                  ELSE Raised(ProviderError(code, "", "Cost processing with tokens failed"))

\* calculate_cost, finalize_hold_with_tokens, create_usage and
\* create_generation share one shape: synthetic result on 5xx / network
billing_call(r) ==
  LET code == MakeRequest(r) IN
  IF code = 0 \/ ShouldFallback(code)
    THEN Returned(0, "none")
    ELSE Raised(ProviderError(code, "", "billing call failed"))

\* ------------------------------------------------ terminal-chunk detector
\* CompletionHandler._is_final_chunk: the verdict for a chunk, given
\* whether metadata["has_finish_reason"] is already set
\* (a detector that would take any usage-carrying chunk as final)
IsFinalChunkUsageOnly(ch, seen) == ch.usage

\* (a detector that would know only its second case: usage once a
\* finish_reason has been seen)
IsFinalChunkSeenOnly(ch, seen) == ch.usage /\ seen

IsFinalChunk(ch, seen) == (ch.fin /\ ch.usage) \/ (ch.usage /\ seen)

\* metadata["has_finish_reason"] after the detector looked at the chunk
SeenAfter(ch, seen) == IF IsFinalChunk(ch, seen) THEN seen ELSE (seen \/ ch.fin)

XRouterIsFinalChunk(ch, seen) == (ch.fin /\ ch.usage) \/ (ch.usage /\ seen)

XRouterSeenAfter(ch, seen) == IF XRouterIsFinalChunk(ch, seen) THEN seen ELSE (seen \/ ch.fin)

OllamaIsFinalChunk(ch) == ch.fin

\* ----------------------------------------------------- provider drivers
\* what one resumption of create_completion does with the frame it reads
DrvEnd(seen, last) == [act |-> "end", chunk |-> NoChunk, final |-> FALSE, seen |-> seen, last |-> last, error |-> NoError]

DrvYield(ch, final, seen, last) == [act |-> "yield", chunk |-> ch, final |-> final, seen |-> seen, last |-> last, error |-> NoError]

DrvRaise(e, seen, last) == [act |-> "raise", chunk |-> NoChunk, final |-> FALSE, seen |-> seen, last |-> last, error |-> e]

\* the ProviderError built from an embedded error object
StreamError(f) == ProviderError(IF f.geo THEN 403 ELSE IF f.code = 0 THEN 500 ELSE f.code, "", "stream error")

\* the handlers around the body of create_completion: an HTTPError keeps
\* its status, every other exception leaves as a 500
CreateCompletionError(isHttpError, e) == IF isHttpError THEN ProviderError(e.code, "", "API error") ELSE ProviderError(500, "", "Unexpected error")

XRouterStep(f, seen, last) ==
  CASE f.kind = "done" -> DrvEnd(seen, last)
    [] f.kind = "error" -> DrvRaise(CreateCompletionError(FALSE, StreamError(f)), seen, last)
    [] OTHER -> DrvYield(f, XRouterIsFinalChunk(f, seen), XRouterSeenAfter(f, seen), last)

OllamaStep(f, seen, last) ==
  CASE f.kind = "done" -> IF seen /\ last THEN DrvYield(SyntheticChunk, TRUE, seen, last) ELSE DrvEnd(seen, last)
    [] OTHER -> DrvYield(f, OllamaIsFinalChunk(f), seen \/ OllamaIsFinalChunk(f), last \/ OllamaIsFinalChunk(f))

DriverStep(p, f, seen, last) == IF p = "ollama" THEN OllamaStep(f, seen, last) ELSE XRouterStep(f, seen, last)

\* usage is attached to a stream chunk only when the detector calls it final
\* (a chunk builder that would never attach usage)
StreamChunkUsageNever(ch, v) == FALSE

StreamChunkUsage(ch, v) == v /\ ch.usage

\* the caller-facing artifact: a stream chunk or the assembled response
Artifact(f, u) == [fin |-> f, usage |-> u]

\* --------------------------------------------------- provider resolution
\* the aliases ProviderManager._is_provider_enabled has a toggle for
KnownProviders == {"xrouter", "agents", "deepseek", "ollama"}

\* the provider segments a model id may carry: the known ones and a stranger
Aliases == KnownProviders \cup {"acme"}

\* shapes of external_model_id: provider/model, no slash at all,
\* ollama@server/model, and an id with @ that is not of that shape
ModelIds == {[format |-> "slash", alias |-> a] : a \in Aliases} \cup {[format |-> "bare", alias |-> ""], [format |-> "at", alias |-> "ollama"], [format |-> "at_bad", alias |-> "ollama"]}

Unresolved == [code |-> -1, provider |-> ""]

Resolved(p) == [code |-> 0, provider |-> p]

ResolveError(c) == [code |-> c, provider |-> ""]

IsProviderEnabled(alias, toggles) == alias \in KnownProviders /\ alias \in toggles

GetProviderByAlias(alias, toggles) == IF ~IsProviderEnabled(alias, toggles) THEN ResolveError(403) ELSE Resolved(alias)

get_provider_by_model_id(m, toggles, compat) ==
  IF compat THEN GetProviderByAlias("agents", toggles)
  ELSE IF m.format = "at_bad" \/ m.format = "bare" THEN ResolveError(400)
  ELSE LET provider_alias == IF m.format = "at" THEN "ollama" ELSE m.alias IN
       IF ~IsProviderEnabled(provider_alias, toggles) THEN ResolveError(403)
       ELSE IF provider_alias = "ollama" THEN Resolved("ollama")
       ELSE GetProviderByAlias(provider_alias, toggles)

\* ------------------------------------------------------------------ state
VARIABLES
  billing,        \* ENABLE_LLM_BILLING and a usage client is configured
  stream,         \* request.stream
  provider,       \* provider_id of the driver bound to the request
  hasUserId,      \* context.user_id is set
  validRequest,   \* the request passes Transform's validation
  upstreamStatus, \* HTTP status of the upstream response
  upstream,       \* the frames the upstream sends, in order
  external_model_id, \* the model id of the request
  enabled,        \* the provider toggles that are on
  openai_compatible, \* ENABLE_OPENAI_COMPATIBLE_API
  resolution,     \* what get_provider_by_model_id answered
  idx,            \* position of the chain executor in the handler list
  asked,          \* the canHandle evaluations so far: handler and answer
  ran,            \* the handlers whose handleRequest was entered, in order
  step,           \* position inside the current handler / the run
  generation_id,  \* context.generation_id: "none", "gen", "tx", "fallback"
  on_hold,        \* context.on_hold: -1 for None
  expected_tokens,
  provider_request,
  native_usage,   \* context.native_usage is set
  has_finish_reason, \* context.metadata["has_finish_reason"]
  final_response, \* 0 for None, else index into emitted
  rd,             \* number of upstream frames the driver has read
  drvHasFinish,   \* driver._has_finish_reason
  drvLastChunk,   \* Ollama driver._last_chunk is set
  drvFinal,       \* the driver found its last yielded chunk final
  cur,            \* chunk handed from the driver to the completion stage
  consumed,       \* chunks the completion stage received, in order
  verdicts,       \* completion-stage detector verdict per consumed chunk
  drvVerdicts,    \* driver detector verdict per yielded chunk
  emitted,        \* artifacts the completion stage yielded
  sent,           \* SSE frames written to the client
  httpStatus,     \* 0 until the response status is decided
  err,            \* the error that left the chain
  errFrame,       \* the embedded error frame that made the driver raise
  createCalls,    \* number of provider.create_completion invocations
  holdReply,      \* the billing service's answer to the hold-creation call
  lastReply,      \* its answer to the latest call of the UsageRecord stage
  costCalls,
  finalizeCalls,  \* transaction ids sent to finalize_hold_with_tokens
  usagePosts,
  generationPosts, \* ids of the posted Generation records
  closed,         \* number of provider.close() calls
  closeFailed,    \* provider.close() raised
  delivered,      \* the error that left the service towards its caller
  disconnected,   \* the consumer closed the stream before its end
  cleanups,       \* number of cleanup_context calls on the request's context
  previous_text,  \* YandexMapper._previous_text: request_id -> previous text
  yPhase,         \* per request of the Yandex driver: where it stands
  yChunks,        \* per request: the upstream chunks mapped so far
  yDeltas,        \* per request: the delta texts of the mapped chunks
  yBudget,        \* chunks the Yandex upstream may still send
  rRead,          \* chat frames the Responses adapter has read, in order
  rAdapter,       \* the adapter's locals and the events it has yielded
  rEnded,         \* the chat stream under the adapter is exhausted
  access_token,   \* GigaChatProvider._access_token: 0 for None, else the token
  token_expires_at, \* GigaChatProvider._token_expires_at: -1 for None
  gNow,           \* the time, in minutes since the epoch
  gOffset,        \* UTC offset of the process's local time, in minutes
  gIssued,        \* per token the OAuth endpoint issued: its expiry, epoch minutes
  gPc,            \* per request on the GigaChat driver: where it stands
  gUsed,          \* per request: the token its completion call carried, and when
  nInput,         \* a raw model id
  nPhase,         \* how often normalize_model_id was applied to it
  nOnce,          \* normalize_model_id(nInput)
  nTwice,         \* normalize_model_id(nOnce)
  aChunks,        \* the chunks collected for a non-streaming response
  aFinish,        \* finish_reason of the response assembled from them
  dIn,            \* finish_reason of the internal chunks the GigaChat surface read
  dOut,           \* finish_reason of the GigaChat envelopes it wrote for them
  dBack,          \* finish_reason a GigaChat driver maps those envelopes to
  dEnded,         \* the internal stream under the GigaChat surface is over
  hPc,            \* where _handle_chat_completion stands
  hStream,        \* chat_request.stream of the request on the surface
  hModelKnown,    \* the driver's catalog has the requested model
  hDrivers,       \* provider drivers container.provider() has constructed
  hClosed,        \* provider.close() calls on them
  hStatus         \* status of the HTTP response, 0 until decided

vars == <<billing, stream, provider, hasUserId, validRequest, upstreamStatus, upstream, external_model_id, enabled, openai_compatible, resolution, idx, asked, ran, step, generation_id, on_hold, expected_tokens, provider_request, native_usage, has_finish_reason, final_response, rd, drvHasFinish, drvLastChunk, drvFinal, cur, consumed, verdicts, drvVerdicts, emitted, sent, httpStatus, err, errFrame, createCalls, holdReply, lastReply, costCalls, finalizeCalls, usagePosts, generationPosts, closed, closeFailed, delivered, disconnected, cleanups, previous_text, yPhase, yChunks, yDeltas, yBudget, rRead, rAdapter, rEnded, access_token, token_expires_at, gNow, gOffset, gIssued, gPc, gUsed, nInput, nPhase, nOnce, nTwice, aChunks, aFinish, dIn, dOut, dBack, dEnded, hPc, hStream, hModelKnown, hDrivers, hClosed, hStatus>>

\* the Yandex mapper and the streams of the requests that use it
yandexVars == <<previous_text, yPhase, yChunks, yDeltas, yBudget>>

\* state of the components a chat request through an OpenAI-style driver never touches
\* the Responses adapter over the chat stream of one request
responsesVars == <<rRead, rAdapter, rEnded>>

\* one GigaChat driver instance and the requests that share it
gigaVars == <<access_token, token_expires_at, gNow, gOffset, gIssued, gPc, gUsed>>

\* ProviderManager.normalize_model_id on one raw model id
normVars == <<nInput, nPhase, nOnce, nTwice>>

\* the completion stage assembling a non-streaming response
asmVars == <<aChunks, aFinish>>

\* the GigaChat-v1 surface re-framing the chat stream of one request
dialectVars == <<dIn, dOut, dBack, dEnded>>

\* _handle_chat_completion from the model id to the end of the request
surfaceVars == <<hPc, hStream, hModelKnown, hDrivers, hClosed, hStatus>>

auxVars == <<yandexVars, responsesVars, gigaVars, normVars, asmVars, dialectVars, surfaceVars>>

cfgVars == <<billing, stream, provider, hasUserId, validRequest, upstreamStatus, upstream, external_model_id, enabled, openai_compatible, resolution, auxVars>>

ctxVars == <<generation_id, on_hold, expected_tokens, provider_request, native_usage, has_finish_reason, final_response>>

drvVars == <<rd, drvHasFinish, drvLastChunk, drvFinal, drvVerdicts, errFrame, createCalls>>

cmpVars == <<cur, consumed, verdicts, emitted>>

chainVars == <<asked, ran>>

outVars == <<sent, httpStatus, closed, closeFailed, delivered, disconnected, cleanups>>

billVars == <<holdReply, lastReply, costCalls, finalizeCalls, usagePosts, generationPosts>>

\* no request has reached the Yandex mapper
YandexIdle ==
  /\ previous_text = <<>>
  /\ yPhase = <<>>
  /\ yChunks = <<>>
  /\ yDeltas = <<>>
  /\ yBudget = 0

\* no Responses request is being streamed
ResponsesIdle ==
  /\ rRead = <<>>
  /\ rAdapter = <<>>
  /\ rEnded = FALSE

\* no request has reached the GigaChat driver
GigaIdle ==
  /\ access_token = 0
  /\ token_expires_at = -1
  /\ gNow = 0
  /\ gOffset = 0
  /\ gIssued = <<>>
  /\ gPc = <<>>
  /\ gUsed = <<>>

NormIdle ==
  /\ nInput = <<>>
  /\ nPhase = "idle"
  /\ nOnce = <<>>
  /\ nTwice = <<>>

AsmIdle ==
  /\ aChunks = <<>>
  /\ aFinish = "idle"

DialectIdle ==
  /\ dIn = <<>>
  /\ dOut = <<>>
  /\ dBack = <<>>
  /\ dEnded = FALSE

SurfaceIdle ==
  /\ hPc = "idle"
  /\ hStream = FALSE
  /\ hModelKnown = FALSE
  /\ hDrivers = 0
  /\ hClosed = 0
  /\ hStatus = 0

AuxIdle == YandexIdle /\ ResponsesIdle /\ GigaIdle /\ NormIdle /\ AsmIdle /\ DialectIdle /\ SurfaceIdle

\* a request the chain has not started on
RequestIdle ==
  /\ billing = FALSE /\ stream = FALSE /\ provider = "xrouter"
  /\ hasUserId = TRUE /\ validRequest = TRUE
  /\ upstreamStatus = 200 /\ upstream = <<>>
  /\ idx = 1 /\ asked = <<>> /\ ran = <<>>
  /\ generation_id = "none" /\ on_hold = -1
  /\ expected_tokens = FALSE /\ provider_request = FALSE
  /\ native_usage = FALSE /\ has_finish_reason = FALSE /\ final_response = 0
  /\ rd = 0 /\ drvHasFinish = FALSE /\ drvLastChunk = FALSE /\ drvFinal = FALSE
  /\ cur = NoChunk /\ consumed = <<>> /\ verdicts = <<>> /\ drvVerdicts = <<>>
  /\ emitted = <<>> /\ sent = <<>> /\ httpStatus = 0
  /\ err = NoError /\ errFrame = NoChunk /\ createCalls = 0
  /\ holdReply = NoReply /\ lastReply = NoReply /\ costCalls = 0 /\ finalizeCalls = <<>>
  /\ usagePosts = 0 /\ generationPosts = <<>> /\ closed = 0
  /\ closeFailed = FALSE /\ delivered = NoError /\ disconnected = FALSE /\ cleanups = 0

\* the request's configuration when a component is exercised on its own
ConfigIdle ==
  /\ external_model_id = [format |-> "slash", alias |-> "xrouter"]
  /\ enabled = KnownProviders
  /\ openai_compatible = FALSE
  /\ resolution = Unresolved
  /\ step = "idle"

\* everything of the chat request: left alone by the other components
coreVars == <<billing, stream, provider, hasUserId, validRequest, upstreamStatus, upstream, external_model_id, enabled, openai_compatible, resolution, idx, step, err, chainVars, ctxVars, drvVars, cmpVars, outVars, billVars>>

\* what each component leaves alone when it is exercised on its own
besideYandex == <<coreVars, responsesVars, gigaVars, normVars, asmVars, dialectVars, surfaceVars>>

besideResponses == <<coreVars, yandexVars, gigaVars, normVars, asmVars, dialectVars, surfaceVars>>

besideGiga == <<coreVars, yandexVars, responsesVars, normVars, asmVars, dialectVars, surfaceVars>>

besideNorm == <<coreVars, yandexVars, responsesVars, gigaVars, asmVars, dialectVars, surfaceVars>>

besideAsm == <<coreVars, yandexVars, responsesVars, gigaVars, normVars, dialectVars, surfaceVars>>

besideDialect == <<coreVars, yandexVars, responsesVars, gigaVars, normVars, asmVars, surfaceVars>>

besideSurface == <<coreVars, yandexVars, responsesVars, gigaVars, normVars, asmVars, dialectVars>>

CoreIdle == RequestIdle /\ ConfigIdle

\* ------------------------------------------------------------ the chain
\* (a factory that would put the completion stage before the hold)
HandlersCompletionFirst == IF billing THEN <<"Transform", "Tokenize", "Completion", "LimitCheck", "UsageRecord">> ELSE <<"Transform", "Tokenize", "Completion">>

Handlers == IF billing THEN <<"Transform", "Tokenize", "LimitCheck", "Completion", "UsageRecord">> ELSE <<"Transform", "Tokenize", "Completion">>

CurrentHandler == IF idx \in DOMAIN Handlers THEN Handlers[idx] ELSE "none"

TransformCanHandle == TRUE

TokenizeCanHandle == provider_request

LimitCheckCanHandle == hasUserId /\ on_hold = -1 /\ expected_tokens

CompletionCanHandle == provider_request

UsageRecordCanHandle == final_response # 0

CanHandle(h) == CASE h = "Transform" -> TransformCanHandle [] h = "Tokenize" -> TokenizeCanHandle [] h = "LimitCheck" -> LimitCheckCanHandle [] h = "Completion" -> CompletionCanHandle [] h = "UsageRecord" -> UsageRecordCanHandle [] OTHER -> FALSE

Init ==
  /\ billing \in BOOLEAN
  /\ stream \in BOOLEAN
  /\ provider \in Providers
  /\ hasUserId \in BOOLEAN
  /\ validRequest \in BOOLEAN
  /\ upstreamStatus \in {200, 429}
  /\ upstream \in Scripts(provider)
  /\ (upstreamStatus # 200 => upstream = <<>>)
  /\ external_model_id = (IF provider = "ollama" THEN [format |-> "at", alias |-> "ollama"] ELSE [format |-> "slash", alias |-> provider])
  /\ enabled = KnownProviders
  /\ openai_compatible = FALSE
  /\ resolution = get_provider_by_model_id(external_model_id, enabled, openai_compatible)
  /\ idx = 1
  /\ asked = <<>>
  /\ ran = <<>>
  /\ step = "route"
  /\ AuxIdle
  /\ generation_id = "none"
  /\ on_hold = -1
  /\ expected_tokens = FALSE
  /\ provider_request = FALSE
  /\ native_usage = FALSE
  /\ has_finish_reason = FALSE
  /\ final_response = 0
  /\ rd = 0
  /\ drvHasFinish = FALSE
  /\ drvLastChunk = FALSE
  /\ drvFinal = FALSE
  /\ cur = NoChunk
  /\ consumed = <<>>
  /\ verdicts = <<>>
  /\ drvVerdicts = <<>>
  /\ emitted = <<>>
  /\ sent = <<>>
  /\ httpStatus = 0
  /\ err = NoError
  /\ errFrame = NoChunk
  /\ createCalls = 0
  /\ holdReply = NoReply
  /\ lastReply = NoReply
  /\ costCalls = 0
  /\ finalizeCalls = <<>>
  /\ usagePosts = 0
  /\ generationPosts = <<>>
  /\ closed = 0
  /\ closeFailed = FALSE
  /\ delivered = NoError
  /\ disconnected = FALSE
  /\ cleanups = 0

\* the executor asks the next handler whether it can handle the context
ChainDispatch ==
  /\ step = "dispatch"
  /\ idx \in DOMAIN Handlers
  /\ CanHandle(CurrentHandler)
  /\ asked' = Append(asked, [handler |-> CurrentHandler, can |-> TRUE])
  /\ ran' = Append(ran, CurrentHandler)
  /\ step' = CurrentHandler
  /\ UNCHANGED <<cfgVars, ctxVars, drvVars, cmpVars, outVars, billVars, idx, err>>

ChainSkip ==
  /\ step = "dispatch"
  /\ idx \in DOMAIN Handlers
  /\ ~CanHandle(CurrentHandler)
  /\ asked' = Append(asked, [handler |-> CurrentHandler, can |-> FALSE])
  /\ idx' = idx + 1
  /\ UNCHANGED <<cfgVars, ran, ctxVars, drvVars, cmpVars, outVars, billVars, step, err>>

\* the executor and the service hand every item a handler yields upwards
Forward(item) == item

\* a handler raising aborts the chain
Raise(e) == step' = "raised" /\ err' = e

\* (an executor that would offer the context to the same handler again)
HandlerDoneStay == step' = "dispatch" /\ idx' = idx

\* a handler finishing hands control back to the executor
HandlerDone == step' = "dispatch" /\ idx' = idx + 1

Transform ==
  /\ step = "Transform"
  /\ IF validRequest
       THEN /\ generation_id' = IF generation_id = "none" THEN "gen" ELSE generation_id
            /\ provider_request' = TRUE
            /\ HandlerDone
            /\ UNCHANGED err
       ELSE /\ Raise(ProviderError(400, "", "validation"))
            /\ UNCHANGED <<generation_id, provider_request, idx>>
  /\ UNCHANGED <<cfgVars, chainVars, on_hold, expected_tokens, native_usage, has_finish_reason, final_response, drvVars, cmpVars, outVars, billVars>>

Tokenize ==
  /\ step = "Tokenize"
  /\ IF hasUserId
       THEN /\ expected_tokens' = TRUE
            /\ HandlerDone
            /\ UNCHANGED err
       ELSE /\ Raise(ProviderError(400, "", "User ID must be set in context"))
            /\ UNCHANGED <<expected_tokens, idx>>
  /\ UNCHANGED <<cfgVars, chainVars, generation_id, on_hold, provider_request, native_usage, has_finish_reason, final_response, drvVars, cmpVars, outVars, billVars>>

\* the transaction id of the hold becomes context.generation_id
\* (a stage that would keep the id Transform assigned)
KeepGenerationId(tx, current) == current

StoredGenerationId(tx, current) == tx

LimitCheck ==
  /\ step = "LimitCheck"
  /\ \E r \in HoldReplies :
       LET res == process_cost_with_tokens(r) IN
       /\ holdReply' = r
       /\ IF res.raised
            THEN IF res.error.code = 402
                   THEN /\ on_hold' = -1
                        /\ Raise(ProviderError(402, "payment_required", "Insufficient funds for request processing"))
                        /\ UNCHANGED <<generation_id, idx>>
                   ELSE /\ Raise(res.error)
                        /\ UNCHANGED <<generation_id, on_hold, idx>>
            ELSE /\ generation_id' = StoredGenerationId(res.tx, generation_id)
                 /\ IF res.amount = -1
                      THEN /\ on_hold' = -1
                           /\ Raise(ProviderError(402, "payment_required", "Insufficient funds for request processing"))
                           /\ UNCHANGED idx
                      ELSE /\ on_hold' = res.amount
                           /\ HandlerDone
                           /\ UNCHANGED err
  /\ UNCHANGED <<cfgVars, chainVars, expected_tokens, provider_request, native_usage, has_finish_reason, final_response, drvVars, cmpVars, outVars, lastReply, costCalls, finalizeCalls, usagePosts, generationPosts>>

\* ---------------------------------------------------------- UsageRecord
HasUsageData == native_usage \/ emitted[final_response].usage

\* (a handler that would finalize whatever the hold)
AfterCostAlwaysFinalize == "UsageFinalize"

\* (a handler that would post the Generation record right after the cost)
AfterCostGenerationFirst == "GenerationPost"

AfterCost == IF on_hold > 0 THEN "UsageFinalize" ELSE "UsagePost"

\* (a handler that would finalize again)
AfterFinalizeRetry == "UsageFinalize"

AfterFinalize == "UsagePost"

UsageRecord ==
  /\ step = "UsageRecord"
  /\ IF ~HasUsageData
       THEN /\ Raise(ProviderError(400, "", "Usage data must be present in context or final response"))
            /\ UNCHANGED <<costCalls, lastReply>>
       ELSE /\ costCalls' = costCalls + 1
            /\ \E r \in BillingReplies :
                 LET res == billing_call(r) IN
                 /\ lastReply' = r
                 /\ IF res.raised
                      THEN Raise(res.error)
                      ELSE IF generation_id = "none"
                             THEN Raise(ProviderError(400, "", "Generation ID (transaction_id) must be set in context"))
                             ELSE step' = AfterCost /\ UNCHANGED err
  /\ UNCHANGED <<cfgVars, chainVars, ctxVars, drvVars, cmpVars, outVars, idx, holdReply, finalizeCalls, usagePosts, generationPosts>>

UsageFinalize ==
  /\ step = "UsageFinalize"
  /\ finalizeCalls' = Append(finalizeCalls, generation_id)
  /\ \E r \in BillingReplies :
       LET res == billing_call(r) IN
       /\ lastReply' = r
       /\ IF res.raised THEN Raise(res.error) ELSE step' = AfterFinalize /\ UNCHANGED err
  /\ UNCHANGED <<cfgVars, chainVars, ctxVars, drvVars, cmpVars, outVars, idx, holdReply, costCalls, usagePosts, generationPosts>>

UsagePost ==
  /\ step = "UsagePost"
  /\ usagePosts' = usagePosts + 1
  /\ \E r \in BillingReplies :
       LET res == billing_call(r) IN
       /\ lastReply' = r
       /\ IF res.raised THEN Raise(res.error) ELSE step' = "GenerationPost" /\ UNCHANGED err
  /\ UNCHANGED <<cfgVars, chainVars, ctxVars, drvVars, cmpVars, outVars, idx, holdReply, costCalls, finalizeCalls, generationPosts>>

GenerationPost ==
  /\ step = "GenerationPost"
  /\ generationPosts' = Append(generationPosts, generation_id)
  /\ \E r \in BillingReplies :
       LET res == billing_call(r) IN
       /\ lastReply' = r
       /\ IF res.raised
            THEN Raise(res.error) /\ UNCHANGED idx
            ELSE HandlerDone /\ UNCHANGED err
  /\ UNCHANGED <<cfgVars, chainVars, ctxVars, drvVars, cmpVars, outVars, holdReply, costCalls, finalizeCalls, usagePosts>>

\* ----------------------------------------------------------- Completion
Completion ==
  /\ step = "Completion"
  /\ createCalls' = createCalls + 1
  /\ step' = "AwaitChunk"
  /\ UNCHANGED <<cfgVars, chainVars, ctxVars, rd, drvHasFinish, drvLastChunk, drvFinal, drvVerdicts, errFrame, cmpVars, outVars, billVars, idx, err>>

\* the provider's generator is exhausted: the streaming loop simply ends,
\* the non-streaming path goes on to assemble what it collected
DriverExhausted ==
  IF stream THEN HandlerDone ELSE (step' = "Assemble" /\ UNCHANGED idx)

\* the completion stage asks the driver for the next chunk
DriverNext ==
  /\ step = "AwaitChunk"
  /\ IF upstreamStatus >= 400
       THEN /\ Raise(CreateCompletionError(TRUE, ProviderError(upstreamStatus, "", "")))
            /\ UNCHANGED <<idx, rd, drvHasFinish, drvLastChunk, drvFinal, drvVerdicts, errFrame, cur, consumed>>
       ELSE IF drvFinal \/ rd = Len(upstream)
         THEN /\ DriverExhausted
              /\ UNCHANGED <<err, rd, drvHasFinish, drvLastChunk, drvFinal, drvVerdicts, errFrame, cur, consumed>>
         ELSE LET f == upstream[rd + 1]
                  res == DriverStep(provider, f, drvHasFinish, drvLastChunk) IN
              /\ rd' = rd + 1
              /\ drvHasFinish' = res.seen
              /\ drvLastChunk' = res.last
              /\ CASE res.act = "end" ->
                        /\ DriverExhausted
                        /\ UNCHANGED <<err, drvFinal, drvVerdicts, errFrame, cur, consumed>>
                   [] res.act = "raise" ->
                        /\ Raise(res.error)
                        /\ errFrame' = f
                        /\ UNCHANGED <<idx, drvFinal, drvVerdicts, cur, consumed>>
                   [] OTHER ->
                        /\ cur' = res.chunk
                        /\ consumed' = Append(consumed, res.chunk)
                        /\ drvFinal' = res.final
                        /\ drvVerdicts' = Append(drvVerdicts, res.final)
                        /\ step' = IF stream THEN "BuildChunk" ELSE "Collect"
                        /\ UNCHANGED <<idx, err, errFrame>>
  /\ UNCHANGED <<cfgVars, chainVars, ctxVars, verdicts, emitted, outVars, billVars, createCalls>>

\* (a surface that would put the newest frame in front of the others)
WriteFrameFirst(frames, f) == <<f>> \o frames

\* the surface writes each chunk it receives as one more SSE frame
WriteFrame(frames, f) == Append(frames, f)

\* streaming: _create_stream_chunk (first detector evaluation), then the
\* chunk is yielded up to the HTTP surface, which writes it as a frame
BuildChunk ==
  /\ step = "BuildChunk"
  /\ LET v == IsFinalChunk(cur, has_finish_reason)
         chunk == Artifact(cur.fin, StreamChunkUsage(cur, v)) IN
     /\ native_usage' = (native_usage \/ cur.usage)
     /\ has_finish_reason' = SeenAfter(cur, has_finish_reason)
     /\ emitted' = Append(emitted, chunk)
     /\ sent' = WriteFrame(sent, Frame("chunk", Forward(chunk).fin, Forward(chunk).usage, 0, FALSE))
  /\ httpStatus' = 200
  /\ step' = "AfterYield"
  /\ UNCHANGED <<cfgVars, chainVars, generation_id, on_hold, expected_tokens, provider_request, final_response, drvVars, cur, consumed, verdicts, closed, closeFailed, delivered, disconnected, cleanups, billVars, idx, err>>

\* streaming: the second detector evaluation, after the yield
AfterYield ==
  /\ step = "AfterYield"
  /\ LET v == IsFinalChunk(cur, has_finish_reason) IN
     /\ native_usage' = (native_usage \/ cur.usage)
     /\ has_finish_reason' = SeenAfter(cur, has_finish_reason)
     /\ verdicts' = Append(verdicts, v)
     /\ IF v
          THEN final_response' = Len(emitted) /\ HandlerDone
          ELSE step' = "AwaitChunk" /\ UNCHANGED <<final_response, idx>>
  /\ UNCHANGED <<cfgVars, chainVars, generation_id, on_hold, expected_tokens, provider_request, drvVars, cur, consumed, emitted, outVars, billVars, err>>

\* non-streaming: the chunk is collected and the detector decides
\* whether to stop reading
Collect ==
  /\ step = "Collect"
  /\ LET v == IsFinalChunk(cur, has_finish_reason) IN
     /\ native_usage' = (native_usage \/ cur.usage)
     /\ has_finish_reason' = SeenAfter(cur, has_finish_reason)
     /\ verdicts' = Append(verdicts, v)
     /\ step' = IF v THEN "Assemble" ELSE "AwaitChunk"
  /\ UNCHANGED <<cfgVars, chainVars, generation_id, on_hold, expected_tokens, provider_request, final_response, drvVars, cur, consumed, emitted, outVars, billVars, idx, err>>

\* non-streaming: _assemble_response_from_chunks and _create_chat_response
Assemble ==
  /\ step = "Assemble"
  /\ IF consumed = <<>>
       THEN /\ Raise(ProviderError(500, "", "Failed to execute completion"))
            /\ UNCHANGED <<native_usage, emitted, final_response, idx>>
       ELSE LET u == \E i \in DOMAIN consumed : consumed[i].usage
                f == \E i \in DOMAIN consumed : consumed[i].fin IN
            /\ native_usage' = (native_usage \/ u)
            /\ emitted' = Append(emitted, Artifact(f, u))
            /\ final_response' = Len(emitted) + 1
            /\ HandlerDone
            /\ UNCHANGED err
  /\ UNCHANGED <<cfgVars, chainVars, generation_id, on_hold, expected_tokens, provider_request, has_finish_reason, drvVars, cur, consumed, verdicts, outVars, billVars>>

\* ------------------------------------------------ service and HTTP surface
\* (a service that would wrap what a handler raised)
ServiceWrap(e) == ProviderError(500, "", "Failed to handle chat completion request")

\* the service lets a provider error pass as it is
ServiceReraise(e) == e

\* (a service whose failing close would take the place of the outcome)
CloseOutcomeReplaces(outcome, failed) == IF failed THEN ProviderError(500, "", "Failed to close provider connection") ELSE outcome

\* the service's finally clause: a failure of close is logged and dropped
CloseOutcome(outcome, failed) == outcome

\* the frames the surface writes when the stream ends with this outcome
StreamTail(outcome) == IF outcome = NoError THEN <<DoneFrame>> ELSE <<Frame("error", FALSE, FALSE, outcome.code, FALSE), DoneFrame>>

(* a service that closes the provider after its loop and in its error
   handlers, where the exit of a closed generator does not pass *)
CloseCallsUnlessExit(how) == IF how = "exit" THEN 0 ELSE 1

\* provider.close() calls of the service's finally clause, whether the
\* chain ended, raised, or the generator was closed at a yield
FinallyCloseCalls(how) == 1

(* a completion stage that takes up its loop again after the consumer left *)
OnGeneratorExitResume == "AfterYield"

\* where a generator closed at its yield goes on: nothing after the
\* yield runs, the finally clauses do
OnGeneratorExit == "cleanup"

(* a surface that would run the chain before it answers, and answer a
   failed stream with the error's code *)
StreamErrorStatusFromError(outcome) == outcome.code

\* streaming: the StreamingResponse is returned with its default status
\* before the chain runs; an error of the chain is caught in the body
\* generator and written as a frame
StreamErrorStatus(outcome) == 200

(* a surface that would answer with the response it already holds when
   the service raises after yielding it *)
RegularErrorStatusKeepsResponse(outcome, responses) == IF responses # <<>> THEN 200 ELSE outcome.code

\* non-streaming: an error leaving the service's generator leaves the
\* surface too, whatever response the loop had received before
RegularErrorStatus(outcome, responses) == outcome.code

\* the chain ran to its end: the service closes the provider, the surface
\* writes data: [DONE] or returns the JSON response
RouteFinish ==
  /\ step = "dispatch"
  /\ idx > Len(Handlers)
  /\ closed' = closed + FinallyCloseCalls("end")
  /\ \E failed \in BOOLEAN :
       /\ closeFailed' = failed
       /\ delivered' = CloseOutcome(NoError, failed)
  /\ IF stream
       THEN /\ sent' = sent \o StreamTail(delivered')
            /\ httpStatus' = 200
            /\ UNCHANGED err
       ELSE /\ UNCHANGED sent
            /\ IF delivered' # NoError
                 THEN httpStatus' = delivered'.code /\ UNCHANGED err
                 ELSE IF emitted = <<>>
                        THEN httpStatus' = 500 /\ err' = ProviderError(500, "", "No response from service")
                        ELSE httpStatus' = 200 /\ UNCHANGED err
  /\ step' = "cleanup"
  /\ UNCHANGED <<cfgVars, chainVars, ctxVars, drvVars, cmpVars, billVars, idx, disconnected, cleanups>>

\* a handler raised: the service closes the provider and re-raises, the
\* surface writes an error frame and data: [DONE], or answers with the code
RouteError ==
  /\ step = "raised"
  /\ closed' = closed + FinallyCloseCalls("raise")
  /\ \E failed \in BOOLEAN :
       /\ closeFailed' = failed
       /\ delivered' = CloseOutcome(ServiceReraise(err), failed)
  /\ IF stream
       THEN /\ sent' = sent \o StreamTail(delivered')
            /\ httpStatus' = StreamErrorStatus(delivered')
       ELSE /\ UNCHANGED sent
            /\ httpStatus' = RegularErrorStatus(delivered', emitted)
  /\ step' = "cleanup"
  /\ UNCHANGED <<cfgVars, chainVars, ctxVars, drvVars, cmpVars, billVars, idx, err, disconnected, cleanups>>

\* the consumer of the stream stops (the client disconnects, or the
\* Responses adapter returns) while the generators beneath it are
\* suspended at a yield: they are closed there, the service's finally
\* clause closes the provider
ConsumerClose ==
  /\ step = "AfterYield"
  /\ stream
  /\ ~disconnected
  /\ disconnected' = TRUE
  /\ closed' = closed + FinallyCloseCalls("exit")
  /\ \E failed \in BOOLEAN :
       /\ closeFailed' = failed
       /\ delivered' = CloseOutcome(NoError, failed)
  /\ step' = OnGeneratorExit
  /\ UNCHANGED <<cfgVars, chainVars, ctxVars, drvVars, cmpVars, billVars, idx, err, sent, httpStatus, cleanups>>

\* ChatContextService.cleanup_context
CleanContext ==
  /\ generation_id' = "none"
  /\ on_hold' = -1
  /\ expected_tokens' = FALSE
  /\ provider_request' = FALSE
  /\ native_usage' = FALSE
  /\ has_finish_reason' = FALSE
  /\ final_response' = 0
  /\ cleanups' = cleanups + 1

\* (a surface whose finally clause would clean whatever the request)
FinallyCleansAlways(isStream) == TRUE

\* the finally clause of _handle_chat_completion cleans the context of a
\* non-streaming request only
FinallyCleans(isStream) == ~isStream

\* _handle_chat_completion built the context and the service; for a
\* streaming request it returns the StreamingResponse here, so its finally
\* clause runs before the body of the stream is produced
RouteStart ==
  /\ step = "route"
  /\ IF stream /\ FinallyCleans(stream)
       THEN CleanContext
       ELSE UNCHANGED <<ctxVars, cleanups>>
  /\ step' = "dispatch"
  /\ UNCHANGED <<cfgVars, chainVars, drvVars, cmpVars, sent, httpStatus, closed, closeFailed, delivered, disconnected, billVars, idx, err>>

\* the run is over: the finally clause of _handle_stream_response, or the
\* one of _handle_chat_completion for a non-streaming request
Cleanup ==
  /\ step = "cleanup"
  /\ IF stream \/ FinallyCleans(stream)
       THEN CleanContext
       ELSE UNCHANGED <<ctxVars, cleanups>>
  /\ step' = "finished"
  /\ UNCHANGED <<cfgVars, chainVars, drvVars, cmpVars, sent, httpStatus, closed, closeFailed, delivered, disconnected, billVars, idx, err>>

Next == RouteStart \/ ChainDispatch \/ ChainSkip \/ Transform \/ Tokenize \/ LimitCheck \/ UsageRecord \/ UsageFinalize \/ UsagePost \/ GenerationPost \/ Completion \/ DriverNext \/ BuildChunk \/ AfterYield \/ Collect \/ Assemble \/ RouteFinish \/ RouteError \/ ConsumerClose \/ Cleanup

Spec == Init /\ [][Next]_vars

\* ------------------------------------------ the Responses stream adapter
\* one SSE event of the Responses surface; key names the function call an
\* output item belongs to (0 for the message item) or the code of an error
Event(t, k) == [type |-> t, key |-> k]

ResponsesDone == Event("[DONE]", 0)

\* what the adapter yields before it reads the chat stream
OpeningEvents == <<Event("response.created", 0), Event("response.in_progress", 0), Event("response.output_item.added", 0)>>

EmitCompletionEvents == <<Event("response.output_text.done", 0), Event("response.output_item.done", 0), Event("response.completed", 0), ResponsesDone>>

\* a chat frame without a tool-call delta
NoTool == [key |-> 0, name |-> FALSE]

\* choice.delta.content of a chat frame is a non-empty string
FrameText(f) == "text" \in DOMAIN f /\ f.text

\* choice.delta.tool_calls of a chat frame: the call key and whether this
\* delta carries the function name
FrameTool(f) == IF "tool" \in DOMAIN f THEN f.tool ELSE NoTool

\* pending_tool_calls after one more tool-call delta, in insertion order
RecordToolCall(pending, t) ==
  IF t.key = 0 THEN pending
  ELSE IF \E i \in DOMAIN pending : pending[i].key = t.key
         THEN [i \in DOMAIN pending |-> IF pending[i].key = t.key THEN [key |-> t.key, name |-> pending[i].name \/ t.name] ELSE pending[i]]
         ELSE Append(pending, t)

RECURSIVE FunctionCallEventsAddedOnly(_)
(* an adapter that announces a buffered function call and never closes it *)
FunctionCallEventsAddedOnly(pending) ==
  IF pending = <<>> THEN <<>>
  ELSE (IF Head(pending).name THEN <<Event("response.output_item.added", Head(pending).key)>> ELSE <<>>) \o FunctionCallEventsAddedOnly(Tail(pending))

RECURSIVE FunctionCallEvents(_)
\* the buffered function calls that have a name, each as added then done
FunctionCallEvents(pending) ==
  IF pending = <<>> THEN <<>>
  ELSE (IF Head(pending).name THEN <<Event("response.output_item.added", Head(pending).key), Event("response.output_item.done", Head(pending).key)>> ELSE <<>>) \o FunctionCallEvents(Tail(pending))

(* an adapter that sends an upstream error frame without data: [DONE] *)
ErrorEventsNoDone(f) == <<Event("error", f.code)>>

\* the error payload is passed through, then data: [DONE]
ErrorEvents(f) == <<Event("error", f.code), ResponsesDone>>

\* the adapter's locals before the first chat frame
AdapterStart == [out |-> OpeningEvents, text |-> FALSE, usage |-> FALSE, pending |-> <<>>, returned |-> FALSE]

\* one data: frame of the chat stream through the adapter's loop body
AdapterStep(a, f) ==
  IF a.returned THEN a
  ELSE IF f.kind = "done" THEN [a EXCEPT !.out = @ \o EmitCompletionEvents, !.returned = TRUE]
  ELSE IF f.kind = "error" THEN [a EXCEPT !.out = @ \o ErrorEvents(f), !.returned = TRUE]
  ELSE LET pend == RecordToolCall(a.pending, FrameTool(f))
           delta == IF FrameText(f) THEN <<Event("response.output_text.delta", 0)>> ELSE <<>>
           closing == IF f.fin THEN FunctionCallEvents(pend) \o EmitCompletionEvents ELSE <<>>
       IN [out |-> a.out \o delta \o closing, text |-> a.text \/ FrameText(f), usage |-> a.usage \/ f.usage, pending |-> pend, returned |-> f.fin]

\* the chat stream ended under the adapter
AdapterEnd(a) ==
  IF ~a.returned /\ (a.text \/ a.usage)
    THEN [a EXCEPT !.out = @ \o EmitCompletionEvents, !.returned = TRUE]
    ELSE [a EXCEPT !.returned = TRUE]

RECURSIVE AdapterRun(_, _)
AdapterRun(a, frames) == IF frames = <<>> THEN AdapterEnd(a) ELSE AdapterRun(AdapterStep(a, Head(frames)), Tail(frames))

\* the events of the Responses surface for a whole chat stream
MapStreamToResponsesEvents(frames) == AdapterRun(AdapterStart, frames).out

\* the data: frames the chat surface may write under the adapter: chunks
\* with a text delta, a tool-call delta, a finish_reason or a usage block,
\* an error object, and [DONE]
ChatFrame(k, t, tc, f, u, c) == [kind |-> k, text |-> t, tool |-> tc, fin |-> f, usage |-> u, code |-> c]

ToolDeltas == {NoTool, [key |-> 1, name |-> TRUE], [key |-> 1, name |-> FALSE], [key |-> 2, name |-> TRUE]}

ChatFrames == {ChatFrame("chunk", t, tc, f, FALSE, 0) : t \in BOOLEAN, tc \in ToolDeltas, f \in BOOLEAN} \cup {ChatFrame("chunk", FALSE, NoTool, f, TRUE, 0) : f \in BOOLEAN} \cup {ChatFrame("error", FALSE, NoTool, FALSE, FALSE, 429), ChatFrame("done", FALSE, NoTool, FALSE, FALSE, 0)}

ResponsesInit ==
  /\ rRead = <<>>
  /\ rAdapter = AdapterStart
  /\ rEnded = FALSE
  /\ CoreIdle /\ YandexIdle /\ GigaIdle /\ NormIdle /\ AsmIdle /\ DialectIdle /\ SurfaceIdle

\* the adapter takes the next frame of the chat stream through its loop
AdapterRead ==
  /\ ~rAdapter.returned /\ ~rEnded
  /\ Len(rRead) < MaxFrames
  /\ \E f \in ChatFrames :
       /\ rAdapter' = AdapterStep(rAdapter, f)
       /\ rRead' = Append(rRead, f)
  /\ UNCHANGED <<rEnded, besideResponses>>

\* the chat stream is exhausted before the adapter returned
AdapterStreamEnds ==
  /\ ~rAdapter.returned /\ ~rEnded
  /\ rAdapter' = AdapterEnd(rAdapter)
  /\ rEnded' = TRUE
  /\ UNCHANGED <<rRead, besideResponses>>

ResponsesNext == AdapterRead \/ AdapterStreamEnds

ResponsesSpec == ResponsesInit /\ [][ResponsesNext]_vars

\* ------------------------------------------------ the Yandex wire mapper
\* longest cumulative text of a chunk, in characters
MaxText == 2

\* chunks the Yandex upstream sends over all the requests of one run
MaxChunks == 2

Letters == {"a", "b"}

Texts == UNION {[1..n -> Letters] : n \in 0..MaxText}

\* the requests that share one mapper instance
RequestIds == {"r1", "r2"}

\* a chunk of the Yandex stream: alternatives[0].status and message.text;
\* a message carries its tool calls instead of a text
YandexChunk(s, t) == [status |-> s, text |-> t]

YandexChunks == {YandexChunk(s, t) : s \in {"ALTERNATIVE_STATUS_PARTIAL", "ALTERNATIVE_STATUS_FINAL"}, t \in Texts} \cup {YandexChunk("ALTERNATIVE_STATUS_TOOL_CALLS", <<>>)}

TerminalStatus(s) == s \in {"ALTERNATIVE_STATUS_FINAL", "ALTERNATIVE_STATUS_TOOL_CALLS"}

\* dict.get, item assignment and dict.pop on the request_id -> text map
MapGet(m, k, d) == IF k \in DOMAIN m THEN m[k] ELSE d

MapPut(m, k, v) == [x \in DOMAIN m \cup {k} |-> IF x = k THEN v ELSE m[x]]

MapPop(m, k) == [x \in DOMAIN m \ {k} |-> m[x]]

\* str.startswith
StartsWith(s, p) == Len(p) <= Len(s) /\ SubSeq(s, 1, Len(p)) = p

(* a mapper that forwards each cumulative text as if it were the delta *)
DeltaTextWhole(previous, current) == current

\* the delta of a cumulative text against the stored previous text
DeltaText(previous, current) == IF previous # <<>> /\ StartsWith(current, previous) THEN SubSeq(current, Len(previous) + 1, Len(current)) ELSE current

(* a mapper that keeps the previous text after the terminal chunk *)
MapYandexStreamChunkKeep(m, r, ch) ==
  LET tool == ch.status = "ALTERNATIVE_STATUS_TOOL_CALLS" IN
    [previous |-> IF tool THEN m ELSE MapPut(m, r, ch.text),
     delta |-> IF tool THEN <<>> ELSE DeltaText(MapGet(m, r, <<>>), ch.text),
     finish |-> TerminalStatus(ch.status)]

\* _map_yandex_stream_chunk: the map afterwards, the delta text of the
\* chunk it returns and whether that chunk carries a finish_reason
MapYandexStreamChunk(m, r, ch) ==
  LET tool == ch.status = "ALTERNATIVE_STATUS_TOOL_CALLS"
      stored == IF tool THEN m ELSE MapPut(m, r, ch.text) IN
    [previous |-> IF TerminalStatus(ch.status) THEN MapPop(stored, r) ELSE stored,
     delta |-> IF tool THEN <<>> ELSE DeltaText(MapGet(m, r, <<>>), ch.text),
     finish |-> TerminalStatus(ch.status)]

YandexInit ==
  /\ previous_text = <<>>
  /\ yPhase = [r \in RequestIds |-> "new"]
  /\ yChunks = [r \in RequestIds |-> <<>>]
  /\ yDeltas = [r \in RequestIds |-> <<>>]
  /\ yBudget = MaxChunks
  /\ CoreIdle /\ ResponsesIdle /\ GigaIdle /\ NormIdle /\ AsmIdle /\ DialectIdle /\ SurfaceIdle

\* map_to_provider_request: the driver maps the request before it posts it
YandexMapRequest ==
  \E r \in RequestIds :
    /\ yPhase[r] = "new"
    /\ previous_text' = MapPut(previous_text, r, <<>>)
    /\ yPhase' = [yPhase EXCEPT ![r] = "mapped"]
    /\ UNCHANGED <<yChunks, yDeltas, yBudget, besideYandex>>

\* the driver reads one line of the stream, maps it and yields the
\* chunk; it leaves the loop after a chunk with a finish_reason
YandexMapChunk ==
  \E r \in RequestIds, ch \in YandexChunks :
    /\ yPhase[r] \in {"mapped", "streaming"}
    /\ yBudget > 0
    /\ LET res == MapYandexStreamChunk(previous_text, r, ch) IN
         /\ previous_text' = res.previous
         /\ yDeltas' = [yDeltas EXCEPT ![r] = Append(@, res.delta)]
         /\ yPhase' = [yPhase EXCEPT ![r] = IF res.finish THEN "ended" ELSE "streaming"]
    /\ yChunks' = [yChunks EXCEPT ![r] = Append(@, ch)]
    /\ yBudget' = yBudget - 1
    /\ UNCHANGED besideYandex

\* the upstream closes the stream, or fails, without a terminal status
YandexStreamBreaks ==
  \E r \in RequestIds :
    /\ yPhase[r] \in {"mapped", "streaming"}
    /\ yPhase' = [yPhase EXCEPT ![r] = "broken"]
    /\ UNCHANGED <<previous_text, yChunks, yDeltas, yBudget, besideYandex>>

YandexNext == YandexMapRequest \/ YandexMapChunk \/ YandexStreamBreaks

YandexSpec == YandexInit /\ [][YandexNext]_vars

\* --------------------------------------------- the GigaChat access token
\* the clock of a run stops here, in minutes
MaxTime == 8

\* buffer_minutes of _is_token_valid
BufferMinutes == 5

\* _token_expires_at before the first refresh
NoExpiry == -100000

\* minutes a token of the OAuth endpoint lives
TokenLifetimes == {7}

\* UTC offsets the process's local time zone may have, in minutes
UtcOffsets == {-60, 0, 60}

\* the requests that share the driver instance
Tasks == {"t1", "t2"}

NoUse == [token |-> 0, at |-> -1, refreshed |-> FALSE]

\* GigaChatToken.expires_at: Unix time in milliseconds
ExpiresAtMs(minute) == minute * 60000

\* datetime.fromtimestamp(ms / 1000): a naive datetime in local time
FromTimestamp(ms, off) == (ms \div 60000) + off

\* datetime.utcnow(): a naive datetime in UTC
UtcNow(now) == now

IsTokenValid(token, expires, current_time) == token # 0 /\ expires # NoExpiry /\ current_time < expires - BufferMinutes

(* a refresh that sets the expiry only when none is stored yet *)
StoreTokenKeepExpiry(resp, old, off) == [token |-> resp.access_token, expires |-> IF old.expires = NoExpiry THEN FromTimestamp(resp.expires_at, off) ELSE old.expires]

\* _refresh_token after the response arrived: both fields are assigned
\* from it without an await in between
StoreToken(resp, old, off) == [token |-> resp.access_token, expires |-> FromTimestamp(resp.expires_at, off)]

GigaInit ==
  /\ access_token = 0
  /\ token_expires_at = NoExpiry
  /\ gNow = 0
  /\ gOffset \in UtcOffsets
  /\ gIssued = <<>>
  /\ gPc = [t \in Tasks |-> "idle"]
  /\ gUsed = [t \in Tasks |-> NoUse]
  /\ CoreIdle /\ YandexIdle /\ ResponsesIdle /\ NormIdle /\ AsmIdle /\ DialectIdle /\ SurfaceIdle

\* create_completion up to its first await that suspends: _ensure_token
\* finds the token valid and the completion call is sent with it, or it
\* posts a refresh and waits for the answer
GigaEnsureToken ==
  \E t \in Tasks :
    /\ gPc[t] = "idle"
    /\ IF IsTokenValid(access_token, token_expires_at, UtcNow(gNow))
         THEN /\ gUsed' = [gUsed EXCEPT ![t] = [token |-> access_token, at |-> gNow, refreshed |-> FALSE]]
              /\ gPc' = [gPc EXCEPT ![t] = "sent"]
         ELSE /\ gPc' = [gPc EXCEPT ![t] = "refreshing"]
              /\ UNCHANGED gUsed
    /\ UNCHANGED <<access_token, token_expires_at, gNow, gOffset, gIssued, besideGiga>>

\* the answer of the OAuth endpoint arrives: the token is stored and the
\* completion call is sent with it, or the refresh fails
GigaRefreshDone ==
  \E t \in Tasks, ok \in BOOLEAN, life \in TokenLifetimes :
    /\ gPc[t] = "refreshing"
    /\ IF ok
         THEN LET resp == [access_token |-> Len(gIssued) + 1, expires_at |-> ExpiresAtMs(gNow + life)]
                  st == StoreToken(resp, [token |-> access_token, expires |-> token_expires_at], gOffset) IN
              /\ access_token' = st.token
              /\ token_expires_at' = st.expires
              /\ gIssued' = Append(gIssued, gNow + life)
              /\ gUsed' = [gUsed EXCEPT ![t] = [token |-> st.token, at |-> gNow, refreshed |-> TRUE]]
              /\ gPc' = [gPc EXCEPT ![t] = "sent"]
         ELSE /\ gPc' = [gPc EXCEPT ![t] = "failed"]
              /\ UNCHANGED <<access_token, token_expires_at, gIssued, gUsed>>
    /\ UNCHANGED <<gNow, gOffset, besideGiga>>

\* a minute passes
GigaTick ==
  /\ gNow < MaxTime
  /\ gNow' = gNow + 1
  /\ UNCHANGED <<access_token, token_expires_at, gOffset, gIssued, gPc, gUsed, besideGiga>>

GigaNext == GigaEnsureToken \/ GigaRefreshDone \/ GigaTick

GigaSpec == GigaInit /\ [][GigaNext]_vars

\* ------------------------------- assembling a non-streaming response
\* finish_reason of a collected chunk's choice; "null" when it has none
FinishReasons == {"null", "stop", "length"}

CollectedChunk(fr, u) == [finish_reason |-> fr, usage |-> u]

CollectedChunks == {CollectedChunk(fr, u) : fr \in FinishReasons, u \in BOOLEAN}

\* the chunk as the terminal-chunk detector looks at it
AsFrame(c) == Frame("chunk", c.finish_reason # "null", c.usage, 0, FALSE)

RECURSIVE SeenOver(_)
\* metadata["has_finish_reason"] after the detector looked at these chunks
SeenOver(chunks) == IF chunks = <<>> THEN FALSE ELSE SeenAfter(AsFrame(chunks[Len(chunks)]), SeenOver(SubSeq(chunks, 1, Len(chunks) - 1)))

\* the detector's verdict on the chunk collected last
LastIsFinal(chunks) == chunks # <<>> /\ IsFinalChunk(AsFrame(chunks[Len(chunks)]), SeenOver(SubSeq(chunks, 1, Len(chunks) - 1)))

RECURSIVE AssembleLoop(_, _)
\* the loop of _assemble_response_from_chunks over the chunks, for the
\* local finish_reason
AssembleLoop(chunks, finish_reason) ==
  IF chunks = <<>> THEN finish_reason
  ELSE AssembleLoop(Tail(chunks), IF Head(chunks).finish_reason # "null" THEN Head(chunks).finish_reason ELSE finish_reason)

AssembleFinishReason(chunks) == AssembleLoop(chunks, "null")

AsmInit ==
  /\ aChunks = <<>>
  /\ aFinish = "collecting"
  /\ CoreIdle /\ YandexIdle /\ ResponsesIdle /\ GigaIdle /\ NormIdle /\ DialectIdle /\ SurfaceIdle

\* the completion stage appends the driver's next chunk, unless the one
\* before it was found final
AsmCollect ==
  /\ aFinish = "collecting"
  /\ ~LastIsFinal(aChunks)
  /\ Len(aChunks) < MaxFrames
  /\ \E c \in CollectedChunks : aChunks' = Append(aChunks, c)
  /\ UNCHANGED <<aFinish, besideAsm>>

\* the loop over the driver ended, by break or by exhaustion
AsmAssemble ==
  /\ aFinish = "collecting"
  /\ aChunks # <<>>
  /\ aFinish' = AssembleFinishReason(aChunks)
  /\ UNCHANGED <<aChunks, besideAsm>>

AsmNext == AsmCollect \/ AsmAssemble

AsmSpec == AsmInit /\ [][AsmNext]_vars

\* ------------------------------------------------ model-id normalization
\* longest raw model id, in characters
MaxIdLen == 5

\* an upper-case letter, a lower-case letter, a space and a hyphen
IdChars == {"A", "a", " ", "-"}

RawModelIds == UNION {[1..n -> IdChars] : n \in 0..MaxIdLen}

\* str.lower
Lower(s) == [i \in DOMAIN s |-> IF s[i] = "A" THEN "a" ELSE s[i]]

\* str.replace(" ", "-")
ReplaceSpaces(s) == [i \in DOMAIN s |-> IF s[i] = " " THEN "-" ELSE s[i]]

RECURSIVE ReplaceDoubleHyphens(_)
\* str.replace("--", "-"): one pass from the left over non-overlapping pairs
ReplaceDoubleHyphens(s) ==
  IF Len(s) < 2 THEN s
  ELSE IF s[1] = "-" /\ s[2] = "-"
         THEN <<"-">> \o ReplaceDoubleHyphens(SubSeq(s, 3, Len(s)))
         ELSE <<s[1]>> \o ReplaceDoubleHyphens(Tail(s))

\* "--" in s
HasDoubleHyphen(s) == \E i \in 1..(Len(s) - 1) : s[i] = "-" /\ s[i + 1] = "-"

(* a normalization that replaces the double hyphens once, without the loop *)
CollapseHyphensOnce(s) == ReplaceDoubleHyphens(s)

RECURSIVE CollapseHyphens(_)
\* while "--" in normalized: normalized = normalized.replace("--", "-")
CollapseHyphens(s) == IF HasDoubleHyphen(s) THEN CollapseHyphens(ReplaceDoubleHyphens(s)) ELSE s

RECURSIVE StripLeft(_)
StripLeft(s) == IF s # <<>> /\ Head(s) = "-" THEN StripLeft(Tail(s)) ELSE s

RECURSIVE StripRight(_)
StripRight(s) == IF s # <<>> /\ s[Len(s)] = "-" THEN StripRight(SubSeq(s, 1, Len(s) - 1)) ELSE s

\* str.strip("-")
Strip(s) == StripRight(StripLeft(s))

normalize_model_id(model_id) == Strip(CollapseHyphens(ReplaceSpaces(Lower(model_id))))

NormInit ==
  /\ nInput \in RawModelIds
  /\ nPhase = "raw"
  /\ nOnce = <<>>
  /\ nTwice = <<>>
  /\ CoreIdle /\ YandexIdle /\ ResponsesIdle /\ GigaIdle /\ AsmIdle /\ DialectIdle /\ SurfaceIdle

\* the raw id is normalized
Normalize ==
  /\ nPhase = "raw"
  /\ nOnce' = normalize_model_id(nInput)
  /\ nPhase' = "once"
  /\ UNCHANGED <<nInput, nTwice, besideNorm>>

\* a normalized id is normalized again
NormalizeAgain ==
  /\ nPhase = "once"
  /\ nTwice' = normalize_model_id(nOnce)
  /\ nPhase' = "twice"
  /\ UNCHANGED <<nInput, nOnce, besideNorm>>

NormNext == Normalize \/ NormalizeAgain

NormSpec == NormInit /\ [][NormNext]_vars

\* ------------------------------------------- provider resolution alone
\* the HTTP surface resolving the model id of a request, before any chain
ResolveInit ==
  /\ external_model_id \in ModelIds
  /\ enabled \in SUBSET KnownProviders
  /\ openai_compatible \in BOOLEAN
  /\ resolution = Unresolved
  /\ step = "resolve"
  /\ RequestIdle
  /\ AuxIdle

Resolve ==
  /\ step = "resolve"
  /\ resolution' = get_provider_by_model_id(external_model_id, enabled, openai_compatible)
  /\ step' = "resolved"
  /\ UNCHANGED <<billing, stream, provider, hasUserId, validRequest, upstreamStatus, upstream, external_model_id, enabled, openai_compatible>>
  /\ UNCHANGED <<chainVars, ctxVars, drvVars, cmpVars, outVars, billVars, idx, err, auxVars>>

ResolveNext == Resolve

ResolveSpec == ResolveInit /\ [][ResolveNext]_vars

\* ================================================================= properties
\* the run is over and the context has not been cleaned yet
RunEnded == step = "cleanup"

RunSucceeded == RunEnded /\ err = NoError /\ ~disconnected

\* C1: whenever LimitCheck stored a hold with on_hold > 0, the run either
\* finalizes that hold with its transaction id or ends with an error
C1_HoldFinalizedOrErrorSurfaced ==
  (billing /\ RunEnded /\ on_hold > 0) =>
     (err # NoError \/ finalizeCalls = <<generation_id>>)

\* C2: finalize_hold_with_tokens is called at most once in a run
C2_FinalizeAtMostOnce == Len(finalizeCalls) <= 1

C2_Witness == RunSucceeded /\ on_hold > 0 /\ finalizeCalls = <<"tx">>

\* C3: a billing-enabled request that completes successfully has posted
\* exactly one Usage record and exactly one Generation record
C3_OneUsageOneGeneration ==
  (billing /\ RunSucceeded) => (usagePosts = 1 /\ Len(generationPosts) = 1)

\* C4: with billing enabled every posted Generation id is the
\* transaction_id the hold-creation call returned, never Transform's gen_ id
C4_GenerationIdIsHoldTransaction ==
  \A i \in DOMAIN generationPosts :
     /\ billing
     /\ holdReply # NoReply
     /\ ~process_cost_with_tokens(holdReply).raised
     /\ generationPosts[i] = process_cost_with_tokens(holdReply).tx
     /\ generationPosts[i] # "gen"

C4_Witness == RunSucceeded /\ generationPosts = <<"tx">> /\ holdReply = Reply(200, HoldAmount)

\* an Ollama upstream: content chunks, a chunk with finish_reason and no
\* usage, then [DONE]
OllamaNoUsageScript ==
  /\ provider = "ollama"
  /\ Len(upstream) >= 3
  /\ upstream[Len(upstream)] = DoneFrame
  /\ upstream[Len(upstream) - 1] = Frame("chunk", TRUE, FALSE, 0, FALSE)
  /\ \A i \in 1..(Len(upstream) - 2) : upstream[i] = Frame("chunk", FALSE, FALSE, 0, FALSE)

\* C5: for such an Ollama stream the driver emits a synthesized zero-usage
\* terminal chunk, so the client's last frame before data: [DONE] carries usage
C5_OllamaSyntheticUsageChunk ==
  (stream /\ OllamaNoUsageScript /\ RunSucceeded) =>
     /\ consumed # <<>> /\ consumed[Len(consumed)] = SyntheticChunk
     /\ Len(sent) >= 2
     /\ sent[Len(sent)] = DoneFrame
     /\ sent[Len(sent) - 1].kind = "chunk" /\ sent[Len(sent) - 1].usage

\* C6: a streamed request that completes normally has exactly one chunk
\* designated terminal, stored as final_response, and no chunk after it
C6_ExactlyOneTerminalChunk ==
  (stream /\ RunSucceeded) =>
     /\ Cardinality({k \in DOMAIN verdicts : verdicts[k]}) = 1
     /\ final_response # 0
     /\ final_response = Len(emitted)
     /\ verdicts[final_response]

\* C7 as stated, for the runs that reached a terminal chunk: the last frame
\* is data: [DONE] and the frame right before it carries a finish_reason
C7_FrameBeforeDoneHasFinish ==
  (stream /\ RunSucceeded /\ final_response # 0) =>
     /\ Len(sent) >= 2
     /\ sent[Len(sent)] = DoneFrame
     /\ sent[Len(sent) - 1].fin

\* C7 amended: the last frame is data: [DONE]; when a terminal chunk was
\* designated it is the frame right before [DONE], it carries usage, and a
\* finish_reason is carried by it or by an earlier frame
C7_DoneLastFinishAtOrBeforeTerminal ==
  (stream /\ RunSucceeded) =>
     /\ sent # <<>>
     /\ sent[Len(sent)] = DoneFrame
     /\ \A i \in 1..(Len(sent) - 1) : sent[i].kind = "chunk"
     /\ final_response # 0 =>
          /\ Len(sent) = final_response + 1
          /\ sent[final_response].usage
          /\ \E i \in 1..final_response : sent[i].fin

C7_Witness ==
  /\ stream /\ RunSucceeded /\ final_response >= 2
  /\ ~sent[final_response].fin
  /\ sent[final_response - 1].fin

\* the S0/S1/S2 reading of a chunk sequence: chunk k is terminal exactly
\* when it carries usage and it or an earlier chunk carried a finish_reason
TerminalAt(chunks, k) == chunks[k].usage /\ \E j \in 1..k : chunks[j].fin

\* C8: the detector's verdicts follow the S0/S1/S2 machine, a finish-only
\* chunk moves to S1 without terminating, and nothing is consumed after S2
C8_DetectorFollowsStateMachine ==
  /\ \A k \in DOMAIN verdicts : verdicts[k] = TerminalAt(consumed, k)
  /\ \A k \in DOMAIN verdicts : verdicts[k] => k = Len(consumed)
  /\ step \notin {"BuildChunk", "Collect", "finished"} =>
       (has_finish_reason = \E j \in DOMAIN consumed : consumed[j].fin /\ ~consumed[j].usage)
  /\ provider = "xrouter" =>
       \A k \in DOMAIN drvVerdicts : drvVerdicts[k] = TerminalAt(consumed, k)

C8_Witness ==
  \E k \in DOMAIN verdicts :
     /\ k >= 2 /\ verdicts[k] /\ ~consumed[k].fin
     /\ consumed[k - 1].fin /\ ~verdicts[k - 1]

\* C9: an embedded error object read mid-stream leaves create_completion
\* with the code translated from that frame (403 when geo-blocked)
C9_EmbeddedErrorKeepsCode ==
  (errFrame.kind = "error" /\ step = "raised") => err.code = StreamError(errFrame).code

\* C10: amount_held = null fails the request with 402 payment_required,
\* amount_held = 0 lets it proceed
C10_NullAmountIs402 ==
  /\ (holdReply = Reply(200, -1) /\ step = "raised") =>
        (err.code = 402 /\ err.type = "payment_required")
  /\ (holdReply = Reply(200, 0) /\ idx = 3) => step # "raised"

\* C11: when the hold stage ends in 402 the driver's create_completion is
\* never invoked and no cost, finalize, Usage or Generation call is made
C11_NoUpstreamAfter402 ==
  (billing /\ holdReply # NoReply /\ err.code = 402 /\ err.type = "payment_required") =>
     /\ createCalls = 0
     /\ rd = 0 /\ consumed = <<>> /\ sent \in {<<>>, <<Frame("error", FALSE, FALSE, 402, FALSE), DoneFrame>>}
     /\ costCalls = 0
     /\ finalizeCalls = <<>>
     /\ usagePosts = 0
     /\ generationPosts = <<>>

C11_Witness ==
  /\ step = "finished" /\ holdReply = Reply(402, -1) /\ err.code = 402
  /\ upstream # <<>> /\ createCalls = 0

\* C12: a provider segment outside the known registry fails with 400, a
\* known provider whose toggle is off fails with 403
C12_UnknownIs400DisabledIs403 ==
  (step = "resolved" /\ ~openai_compatible /\ external_model_id.format = "slash") =>
     /\ external_model_id.alias \notin KnownProviders => resolution.code = 400
     /\ (external_model_id.alias \in KnownProviders /\ external_model_id.alias \notin enabled) => resolution.code = 403

\* the billing service was unreachable or answered with a 5xx status
Unavailable(r) == r.status = 0 \/ r.status >= 500

\* C13: a network failure or any 5xx answer to a billing call never aborts
\* the request: the hold degrades to a zero hold with a synthetic id and the
\* calls of the UsageRecord stage return synthetic results
C13_BillingOutageNeverAborts ==
  /\ (holdReply # NoReply /\ Unavailable(holdReply)) =>
        /\ ~(step = "raised" /\ CurrentHandler = "LimitCheck")
        /\ (CurrentHandler = "Completion") => (on_hold = 0 /\ generation_id = "fallback")
  /\ (lastReply # NoReply /\ Unavailable(lastReply)) => step # "raised"

\* C14: the UsageRecord stage calls finalize_hold_with_tokens exactly when
\* on_hold > 0; a hold of 0 is not finalized and both records are posted
C14_FinalizeIffPositiveHold ==
  /\ finalizeCalls # <<>> => holdReply = Reply(200, HoldAmount)
  /\ (CurrentHandler = "UsageRecord" /\ step \in {"UsagePost", "GenerationPost"}) =>
        ((finalizeCalls # <<>>) <=> (on_hold > 0))
  /\ (billing /\ RunSucceeded /\ final_response # 0) =>
        /\ (Len(finalizeCalls) = 1) <=> (on_hold > 0)
        /\ on_hold = 0 => (finalizeCalls = <<>> /\ usagePosts = 1 /\ Len(generationPosts) = 1)

C14_Witness ==
  /\ RunSucceeded /\ holdReply = Reply(200, 0) /\ on_hold = 0
  /\ finalizeCalls = <<>> /\ usagePosts = 1 /\ generationPosts = <<"tx">>

\* C15: the UsageRecord stage calls cost calculation, hold finalization,
\* Usage post, Generation post in that order, each only after the previous
\* call returned without error
C15_BillingCallOrder ==
  /\ Len(generationPosts) <= usagePosts
  /\ usagePosts <= costCalls
  /\ Len(finalizeCalls) <= costCalls
  /\ costCalls <= 1
  /\ (usagePosts > 0 /\ holdReply = Reply(200, HoldAmount)) => Len(finalizeCalls) = 1
  /\ step \in {"UsageFinalize", "UsagePost", "GenerationPost"} =>
        /\ err = NoError
        /\ lastReply # NoReply /\ ~billing_call(lastReply).raised
        /\ step = "UsageFinalize" => (finalizeCalls = <<>> /\ usagePosts = 0 /\ generationPosts = <<>>)
        /\ step = "UsagePost" => (usagePosts = 0 /\ generationPosts = <<>>)
        /\ step = "GenerationPost" => (usagePosts = 1 /\ generationPosts = <<>>)

C15_Witness ==
  /\ RunSucceeded /\ costCalls = 1 /\ finalizeCalls = <<"tx">>
  /\ usagePosts = 1 /\ generationPosts = <<"tx">>

\* position of a handler in the list the factory built
Position(h) == CHOOSE i \in DOMAIN Handlers : Handlers[i] = h

\* C16: handlers are offered the context in the factory's order, each after
\* the earlier ones finished; one that cannot handle is skipped; none runs
\* twice; what a handler yields reaches the caller unchanged and in order
C16_ChainOrder ==
  /\ Handlers \in {<<"Transform", "Tokenize", "Completion">>, <<"Transform", "Tokenize", "LimitCheck", "Completion", "UsageRecord">>}
  /\ (Len(Handlers) = 5) <=> billing
  /\ Len(asked) <= Len(Handlers)
  /\ \A i \in DOMAIN asked : asked[i].handler = Handlers[i]
  /\ Len(asked) \in {idx - 1, idx}
  /\ \A i, j \in DOMAIN ran : i < j => Position(ran[i]) < Position(ran[j])
  /\ ran = [i \in DOMAIN ran |-> SelectSeq(asked, LAMBDA a : a.can)[i].handler]
  /\ Len(ran) = Len(SelectSeq(asked, LAMBDA a : a.can))
  /\ step \in {"Transform", "Tokenize", "LimitCheck", "Completion", "UsageRecord"} =>
        (ran # <<>> /\ ran[Len(ran)] = step /\ Handlers[idx] = step)
  /\ stream => /\ Len(sent) >= Len(emitted)
               /\ \A i \in DOMAIN emitted : sent[i] = Frame("chunk", emitted[i].fin, emitted[i].usage, 0, FALSE)

C16_Witness ==
  /\ billing /\ stream /\ RunEnded /\ err = NoError
  /\ Len(asked) = 5 /\ ~asked[5].can
  /\ ran = <<"Transform", "Tokenize", "LimitCheck", "Completion">>
  /\ Len(emitted) >= 2

\* a handler raised and the run is past that point
StageRaised == err # NoError /\ idx \in DOMAIN Handlers /\ step \in {"raised", "cleanup", "finished"}

\* C17: after a handler raised no later handler is asked or run, and the
\* error reaches the service's caller with its code, type and message as raised
C17_ErrorAbortsChainUnchanged ==
  StageRaised =>
     /\ Len(asked) = idx
     /\ ran # <<>> /\ ran[Len(ran)] = Handlers[idx]
     /\ (billing /\ Handlers[idx] # "UsageRecord") => (costCalls = 0 /\ finalizeCalls = <<>> /\ usagePosts = 0 /\ generationPosts = <<>>)
     /\ step # "raised" =>
          /\ delivered = err
          /\ ~stream => httpStatus = err.code
          /\ stream => (Len(sent) >= 2 /\ sent[Len(sent) - 1] = Frame("error", FALSE, FALSE, err.code, FALSE))

C17_Witness ==
  /\ billing /\ step = "finished" /\ err.code = 429
  /\ ran = <<"Transform", "Tokenize", "LimitCheck", "Completion">>
  /\ Len(asked) = 4 /\ delivered = err

\* C18: a run that walked the chain has closed the provider exactly once
\* when it is over, however it ended, and not before; a failing close
\* leaves the outcome of the run as it was
C18_ProviderClosedOnce ==
  /\ step \in {"cleanup", "finished"} => closed = 1
  /\ step \notin {"cleanup", "finished"} => closed = 0
  /\ (step \in {"cleanup", "finished"} /\ closeFailed) =>
        delivered = (IF idx \in DOMAIN Handlers /\ ~disconnected THEN err ELSE NoError)

C18_Witness ==
  /\ step = "finished" /\ closeFailed /\ closed = 1
  /\ err.code = 429 /\ delivered = err

\* the context as cleanup_context leaves it
ContextIsClean ==
  /\ generation_id = "none" /\ on_hold = -1 /\ ~expected_tokens /\ ~provider_request
  /\ ~native_usage /\ ~has_finish_reason /\ final_response = 0

C20_ChunksInUpstreamOrder ==
  stream =>
     /\ \A i \in DOMAIN consumed : consumed[i] = upstream[i]
     /\ Len(emitted) = (IF step = "BuildChunk" THEN Len(consumed) - 1 ELSE Len(consumed))
     /\ Len(sent) >= Len(emitted)
     /\ \A i \in DOMAIN emitted :
           /\ sent[i].kind = "chunk"
           /\ sent[i].fin = consumed[i].fin
           /\ sent[i].usage = (consumed[i].usage /\ TerminalAt(consumed, i))
     /\ \A i \in DOMAIN sent : i > Len(emitted) => sent[i].kind # "chunk"
     /\ final_response # 0 => (final_response = Len(consumed) /\ TerminalAt(consumed, final_response))

C20_Witness ==
  /\ stream /\ RunSucceeded /\ final_response = 3
  /\ ~sent[1].fin /\ sent[2].fin /\ ~sent[3].fin /\ sent[3].usage

CountKind(frames, k) == Cardinality({i \in DOMAIN frames : frames[i].kind = k})

CountType(events, t) == Cardinality({i \in DOMAIN events : events[i].type = t})

\* a streamed run that failed after the surface had written a chunk
StreamErroredAfterChunk == stream /\ step \in {"cleanup", "finished"} /\ err # NoError /\ emitted # <<>>

NoFinishSent == \A i \in DOMAIN sent : ~(sent[i].kind = "chunk" /\ sent[i].fin)

\* C21: on the chat surface and on the Responses surface, an error raised
\* after at least one chunk was sent is delivered as exactly one error
\* frame immediately followed by data: [DONE] as the last frame, with
\* HTTP status 200 and nothing after [DONE]
C21_MidStreamErrorFrameThenDone ==
  StreamErroredAfterChunk =>
    LET n == Len(sent)
        out == MapStreamToResponsesEvents(sent)
        m == Len(out) IN
      /\ httpStatus = 200
      /\ n >= 3 /\ sent[n] = DoneFrame /\ sent[n - 1].kind = "error"
      /\ CountKind(sent, "error") = 1 /\ CountKind(sent, "done") = 1
      /\ out[m] = ResponsesDone /\ CountType(out, "[DONE]") = 1
      /\ (NoFinishSent => out[m - 1].type = "error" /\ CountType(out, "error") = 1)

C21_Witness ==
  /\ StreamErroredAfterChunk /\ NoFinishSent
  /\ CountType(MapStreamToResponsesEvents(sent), "error") = 1

RECURSIVE Concat(_)
Concat(texts) == IF texts = <<>> THEN <<>> ELSE Head(texts) \o Concat(Tail(texts))

\* each text of the stream extends the one before it
Cumulative(chunks) == \A i \in 1..(Len(chunks) - 1) : StartsWith(chunks[i + 1].text, chunks[i].text)

\* the stream of request r has ended with a terminal chunk that carries text
EndedWithText(r) == yPhase[r] = "ended" /\ yChunks[r][Len(yChunks[r])].status = "ALTERNATIVE_STATUS_FINAL"

\* C22: for every Yandex stream whose chunks carry cumulative texts, the
\* concatenation of the delta texts emitted for the request equals the
\* cumulative text of the terminal chunk
C22_DeltasConcatToFinalText ==
  \A r \in DOMAIN yPhase :
    (EndedWithText(r) /\ Cumulative(yChunks[r])) =>
       Concat(yDeltas[r]) = yChunks[r][Len(yChunks[r])].text

C22_Witness ==
  \E r \in DOMAIN yPhase :
    /\ EndedWithText(r) /\ Cumulative(yChunks[r])
    /\ Len(yChunks[r]) >= 2
    /\ yChunks[r][1].text # <<>> /\ yChunks[r][2].text # yChunks[r][1].text
    /\ yDeltas[r][2] # yChunks[r][2].text

\* C23 as stated: an entry exists only between the first delta and the
\* terminal chunk, and none before the first delta
C23_EntryOnlyFromFirstDelta ==
  \A r \in DOMAIN yPhase :
    /\ r \in DOMAIN previous_text => (yPhase[r] = "streaming" \/ (yPhase[r] = "broken" /\ yChunks[r] # <<>>))
    /\ yPhase[r] = "ended" => r \notin DOMAIN previous_text

\* C23: the map holds an entry for a request from the mapping of the
\* request, before its first delta, until its terminal-status chunk; no
\* entry exists before the request is mapped and none remains after the
\* terminal chunk is mapped
C23_EntryFromRequestMappingToTerminal ==
  \A r \in DOMAIN yPhase :
    /\ yPhase[r] = "new" => r \notin DOMAIN previous_text
    /\ yPhase[r] \in {"mapped", "streaming"} => r \in DOMAIN previous_text
    /\ yPhase[r] = "ended" => r \notin DOMAIN previous_text

C23_Witness ==
  \E r, q \in DOMAIN yPhase :
    /\ yPhase[r] = "ended" /\ Len(yChunks[r]) >= 2 /\ r \notin DOMAIN previous_text
    /\ yPhase[q] = "mapped" /\ q \in DOMAIN previous_text

IsClosing(e) == e.type \in {"response.output_text.done", "response.completed", "[DONE]"} \/ (e.type = "response.output_item.done" /\ e.key = 0)

IsFunctionCall(e) == e.key # 0 /\ e.type \in {"response.output_item.added", "response.output_item.done"}

\* the adapter has read chunks only, the last of them with a finish_reason
FinishedByFinishReason ==
  /\ rRead # <<>>
  /\ \A i \in DOMAIN rRead : rRead[i].kind = "chunk" /\ (rRead[i].fin <=> i = Len(rRead))

\* the function calls of the read frames that were given a name
NamedCalls == {k \in 1..2 : \E i \in DOMAIN rRead : rRead[i].tool = [key |-> k, name |-> TRUE]}

\* C24: a streamed Responses request whose chat stream carries text
\* deltas, tool-call deltas and then a finish_reason yields created,
\* in_progress, output_item.added (message), the text deltas, then, only
\* after the finish_reason, each buffered function call as added followed
\* by done, then output_text.done, output_item.done (message), completed
\* and [DONE], each closing event exactly once
C24_ResponsesEventOrder ==
  LET out == rAdapter.out
      n == Len(out) IN
    /\ (rAdapter # <<>> /\ ~rAdapter.returned) => \A i \in DOMAIN out : ~IsClosing(out[i]) /\ ~IsFunctionCall(out[i])
    /\ (rAdapter # <<>> /\ FinishedByFinishReason) =>
         /\ SubSeq(out, 1, 3) = <<Event("response.created", 0), Event("response.in_progress", 0), Event("response.output_item.added", 0)>>
         /\ SubSeq(out, n - 3, n) = <<Event("response.output_text.done", 0), Event("response.output_item.done", 0), Event("response.completed", 0), Event("[DONE]", 0)>>
         /\ \A i \in 1..(n - 4) : ~IsClosing(out[i])
         /\ Cardinality({i \in DOMAIN out : out[i].type = "response.output_text.delta"}) = Cardinality({i \in DOMAIN rRead : rRead[i].text})
         /\ \A i, j \in DOMAIN out : (IsFunctionCall(out[i]) /\ out[j].type = "response.output_text.delta") => j < i
         /\ \A k \in 1..2 :
              IF k \in NamedCalls
                THEN \E i \in 4..(n - 5) :
                       /\ out[i] = Event("response.output_item.added", k) /\ out[i + 1] = Event("response.output_item.done", k)
                       /\ \A j \in DOMAIN out : (out[j].key = k) => j \in {i, i + 1}
                ELSE \A j \in DOMAIN out : out[j].key # k

C24_Witness ==
  /\ rAdapter # <<>> /\ rAdapter.returned /\ FinishedByFinishReason
  /\ Len(rRead) = 3 /\ rRead[1].text /\ rRead[2].tool.key = 1 /\ NamedCalls = {1}
  /\ Len(rAdapter.out) = 10

\* the completion stage recorded a terminal chunk
TerminalRecorded == \E i \in DOMAIN verdicts : verdicts[i]

\* C25: hold finalization and the Usage and Generation posts happen only
\* on normal completion: when the consumer cancels or the stream fails
\* before the completion stage recorded the terminal chunk, none of them
\* is made (the billing client has no call that releases a hold)
C25_NoBillingWithoutTerminalChunk ==
  (stream /\ (disconnected \/ ~TerminalRecorded)) =>
     (finalizeCalls = <<>> /\ usagePosts = 0 /\ generationPosts = <<>>)

C25_Witness ==
  /\ stream /\ billing /\ disconnected /\ step = "finished"
  /\ holdReply = Reply(200, HoldAmount) /\ Len(emitted) >= 2
  /\ finalizeCalls = <<>> /\ usagePosts = 0

BothRefreshed == \A t \in DOMAIN gPc : gPc[t] = "sent" /\ gUsed[t].refreshed

\* C27: two concurrent token checks on one GigaChat driver may both
\* refresh; the instance then holds an access token together with the
\* expiry of the same refresh response, and once both have finished the
\* token it holds has not expired
C27_RefreshRaceKeepsTokenAndExpiryPaired ==
  /\ access_token # 0 => token_expires_at = gIssued[access_token] + gOffset
  /\ (BothRefreshed /\ \E t \in DOMAIN gPc : gUsed[t].at = gNow) =>
        (access_token # 0 /\ gNow + BufferMinutes < gIssued[access_token])

C27_Witness ==
  /\ BothRefreshed /\ Len(gIssued) = 2 /\ gIssued[1] # gIssued[2]
  /\ \E t, u \in DOMAIN gPc : gUsed[t].token = 1 /\ gUsed[u].token = 2 /\ gUsed[u].at = gNow

\* C28: a cached token is reused for a request only if the time of the
\* request is more than 5 minutes before the token's expiry; otherwise a
\* refresh completes before the completion call is sent
C28_CachedTokenReusedOnlyBeforeBuffer ==
  \A t \in DOMAIN gPc :
    gPc[t] = "sent" =>
      /\ gUsed[t].token # 0
      /\ ~gUsed[t].refreshed => gUsed[t].at + BufferMinutes < gIssued[gUsed[t].token]

\* the first finish_reason among the chunks that is not null
FirstFinishReason(chunks) ==
  IF \A i \in DOMAIN chunks : chunks[i].finish_reason = "null" THEN "null"
  ELSE chunks[CHOOSE i \in DOMAIN chunks : chunks[i].finish_reason # "null" /\ \A j \in 1..(i - 1) : chunks[j].finish_reason = "null"].finish_reason

\* C29: in non-streaming mode the finish_reason of the assembled
\* response is the first non-null finish_reason among the collected
\* chunks, whatever later chunks carry
C29_FirstFinishReasonWins ==
  aFinish \notin {"idle", "collecting"} => aFinish = FirstFinishReason(aChunks)

\* C30: model-id normalization is idempotent: normalizing a normalized
\* id gives the same id
C30_NormalizeIdempotent == nPhase = "twice" => nTwice = nOnce

C30_Witness ==
  /\ nPhase = "twice" /\ nTwice = nOnce
  /\ nInput = <<"A", " ", "-", " ", "a">> /\ nOnce = <<"a", "-", "a">>


\* ------------------------------------- the GigaChat-v1 surface, finish_reason
\* finish_reason of a choice in a GigaChat stream; "null" when it has none
GigaChatFinishReasons == {"null", "stop", "length", "function_call", "blacklist", "error"}

\* GigaChatMapper.map_provider_stream_chunk: a GigaChat finish_reason as
\* the internal chunk carries it
MapProviderFinishReason(finish_reason) == IF finish_reason = "function_call" THEN "tool_calls" ELSE finish_reason

\* the finish_reason values an internal chunk of a GigaChat stream carries
InternalFinishReasons == {MapProviderFinishReason(fr) : fr \in GigaChatFinishReasons}

\* GigaChatCompletionsRouter._map_finish_reason: the finish_reason of the
\* envelope written for an internal choice
MapFinishReason(finish_reason) ==
  IF finish_reason = "tool_calls" THEN "function_call"
  ELSE IF finish_reason # "null" THEN finish_reason
  ELSE "stop"

DialectInit ==
  /\ dIn = <<>>
  /\ dOut = <<>>
  /\ dBack = <<>>
  /\ dEnded = FALSE
  /\ CoreIdle /\ YandexIdle /\ ResponsesIdle /\ GigaIdle /\ NormIdle /\ AsmIdle /\ SurfaceIdle

\* _map_stream_to_gigachat_events re-frames the next internal chunk
DialectChunk ==
  /\ ~dEnded
  /\ Len(dIn) < MaxFrames
  /\ \E fr \in InternalFinishReasons :
       /\ dIn' = Append(dIn, fr)
       /\ dOut' = Append(dOut, MapFinishReason(fr))
  /\ UNCHANGED <<dBack, dEnded, besideDialect>>

\* data: [DONE] of the internal stream is passed on and the surface returns
DialectDone ==
  /\ ~dEnded
  /\ dEnded' = TRUE
  /\ UNCHANGED <<dIn, dOut, dBack, besideDialect>>

\* a GigaChat driver reading the surface maps the next envelope
DialectReadBack ==
  /\ Len(dBack) < Len(dOut)
  /\ dBack' = Append(dBack, MapProviderFinishReason(dOut[Len(dBack) + 1]))
  /\ UNCHANGED <<dIn, dOut, dEnded, besideDialect>>

DialectNext == DialectChunk \/ DialectDone \/ DialectReadBack

DialectSpec == DialectInit /\ [][DialectNext]_vars

\* C31: for the GigaChat-v1 surface, every finish_reason an internal chunk
\* carries, none included, comes back unchanged after it is mapped out to
\* the GigaChat envelope and mapped in again; tool_calls and function_call
\* are each other's image
C31_FinishReasonRoundTrip ==
  /\ \A i \in DOMAIN dBack : dBack[i] = dIn[i]
  /\ \A i \in DOMAIN dOut : (dIn[i] = "tool_calls") <=> (dOut[i] = "function_call")

\* C33: in streaming mode the completion stage evaluates its terminal
\* detector twice per chunk, while building the emitted chunk (which gets
\* the usage block on a positive verdict) and after yielding it; both
\* evaluations agree, so the chunk that carries usage to the client is
\* exactly the chunk stored as context.final_response
C33_BothEvaluationsAgree ==
  stream =>
    /\ \A i \in DOMAIN verdicts : verdicts[i] = emitted[i].usage
    /\ cleanups = 0 => \A i \in DOMAIN verdicts : (final_response = i) <=> emitted[i].usage

C33_Witness ==
  /\ stream /\ cleanups = 0
  /\ Len(verdicts) = 2
  /\ consumed[1].fin /\ ~consumed[1].usage /\ ~verdicts[1] /\ ~emitted[1].usage
  /\ consumed[2].usage /\ ~consumed[2].fin /\ verdicts[2] /\ emitted[2].usage
  /\ final_response = 2

\* C34: for every provider driver, the chunk at which the driver stops
\* reading the upstream is a chunk the completion stage also finds
\* terminal: the driver never ends its chunk sequence while the
\* completion stage is still waiting for a terminal chunk
C34_DriverStopsOnlyAtTerminalChunk ==
  \A i \in DOMAIN verdicts : i \in DOMAIN drvVerdicts /\ drvVerdicts[i] => verdicts[i]

\* C35: non-streaming with billing enabled: once the completion stage has
\* assembled the completion, the HTTP response is that completion (200)
\* if and only if UsageRecord, the stage after it, finished without error;
\* if UsageRecord fails, for example because no collected chunk carried
\* usage, the client receives that error and the completion is discarded
C35_ResponseIffUsageRecordSucceeded ==
  (~stream /\ billing /\ step \in {"cleanup", "finished"} /\ emitted # <<>>) =>
    /\ (httpStatus = 200) <=> (err = NoError)
    /\ err = NoError => ran[Len(ran)] = "UsageRecord" /\ Len(generationPosts) = 1
    /\ err # NoError => httpStatus = err.code /\ ran[Len(ran)] = "UsageRecord"

C35_Witness ==
  /\ ~stream /\ billing /\ step = "finished"
  /\ Len(emitted) = 1 /\ ~emitted[1].usage
  /\ ran[Len(ran)] = "UsageRecord"
  /\ err.code = 400 /\ httpStatus = 400 /\ costCalls = 0

\* C36: finalize_hold_with_tokens is only ever called with a
\* transaction id the billing service itself returned for this request's
\* hold; a synthetic fallback_ id (hold creation degraded) or a locally
\* generated gen_ id is never sent to finalize
C36_FinalizeOnlyServiceTransaction ==
  \A i \in DOMAIN finalizeCalls :
    /\ finalizeCalls[i] = "tx"
    /\ holdReply.status = 200 /\ holdReply.amount > 0

\* the hold was finalized under the id the billing service returned for it
C36_Witness ==
  /\ step = "UsagePost" /\ billing
  /\ holdReply = Reply(200, HoldAmount) /\ on_hold = HoldAmount
  /\ generation_id = "tx" /\ finalizeCalls = <<"tx">>


\* C38 as stated: a streamed request that fails before any chunk has been
\* sent (a validation 400 from Transform, a 402 from the hold stage) is
\* answered with the error's code as HTTP status rather than 200
C38_EarlyStreamErrorHasErrorStatus ==
  (stream /\ step \in {"cleanup", "finished"} /\ err # NoError /\ emitted = <<>>) =>
    httpStatus = err.code

\* C38, amended: a streamed request whose chain fails before any chunk
\* has been sent is answered with status 200, and the body is one error
\* frame carrying the error's code followed by data: [DONE]
C38_EarlyStreamErrorIs200WithErrorFrame ==
  (stream /\ step \in {"cleanup", "finished"} /\ err # NoError /\ emitted = <<>>) =>
    /\ httpStatus = 200
    /\ sent = <<Frame("error", FALSE, FALSE, err.code, FALSE), DoneFrame>>

C38_Witness ==
  /\ stream /\ billing /\ step = "finished"
  /\ ran = <<"Transform", "Tokenize", "LimitCheck">>
  /\ err.code = 402 /\ emitted = <<>> /\ createCalls = 0
  /\ httpStatus = 200
  /\ sent = <<Frame("error", FALSE, FALSE, 402, FALSE), DoneFrame>>

\* ------------------------- a Responses request over the chat surface
\* a streamed Responses request is the chat request with
\* _map_stream_to_responses_events as the consumer of its body: the
\* generators of the chat surface run only while the adapter awaits their
\* next frame; a non-streamed one is the chat request as it is
AdapterWaiting == rAdapter # <<>> /\ ~rAdapter.returned /\ Len(rRead) = Len(sent)

\* a step of the chat request beneath the Responses surface
UnderAdapter(A) == (stream => AdapterWaiting) /\ A

RespChainInit == Init /\ billing /\ hasUserId /\ provider = "xrouter"

\* the StreamingResponse of the Responses surface is iterated: the adapter
\* yields its opening events and asks the chat body for its first frame
RespOpen ==
  /\ stream
  /\ step = "dispatch"
  /\ rAdapter = <<>>
  /\ rAdapter' = AdapterStart
  /\ UNCHANGED <<rRead, rEnded, besideResponses>>

\* the adapter takes the frame the chat body has yielded through its loop
RespRead ==
  /\ rAdapter # <<>>
  /\ ~rAdapter.returned
  /\ Len(rRead) < Len(sent)
  /\ LET f == sent[Len(rRead) + 1] IN
     /\ rRead' = Append(rRead, f)
     /\ rAdapter' = AdapterStep(rAdapter, f)
  /\ UNCHANGED <<rEnded, besideResponses>>

\* the adapter has returned while the chat body stands at a yield: the
\* body is never resumed and is closed where it stands
RespReturned ==
  /\ rAdapter # <<>>
  /\ rAdapter.returned
  /\ ConsumerClose

RespChainNext ==
  \/ RouteStart
  \/ RespOpen
  \/ UnderAdapter(ChainDispatch)
  \/ UnderAdapter(ChainSkip)
  \/ UnderAdapter(Transform)
  \/ UnderAdapter(Tokenize)
  \/ UnderAdapter(LimitCheck)
  \/ UnderAdapter(Completion)
  \/ UnderAdapter(DriverNext)
  \/ UnderAdapter(BuildChunk)
  \/ UnderAdapter(AfterYield)
  \/ UnderAdapter(Collect)
  \/ UnderAdapter(Assemble)
  \/ UnderAdapter(UsageRecord)
  \/ UnderAdapter(UsageFinalize)
  \/ UnderAdapter(UsagePost)
  \/ UnderAdapter(GenerationPost)
  \/ UnderAdapter(RouteFinish)
  \/ UnderAdapter(RouteError)
  \/ RespRead
  \/ RespReturned
  \/ Cleanup

RespChainSpec == RespChainInit /\ [][RespChainNext]_vars

\* the Responses surface sent response.completed and ended
ResponsesCompleted == rAdapter # <<>> /\ rAdapter.returned /\ CountType(rAdapter.out, "response.completed") = 1

\* the upstream answers 200 and its first frame that is not a plain chunk
\* is a chunk with finish_reason and usage: on the chat surface the
\* completion stage finds it terminal
UpstreamCompletes ==
  /\ upstreamStatus = 200
  /\ \E i \in DOMAIN upstream :
       /\ upstream[i].kind = "chunk" /\ upstream[i].fin /\ upstream[i].usage
       /\ \A j \in 1..(i - 1) : upstream[j].kind = "chunk" /\ ~upstream[j].fin /\ ~upstream[j].usage

\* C32: for a billing-enabled streamed Responses request that completes
\* normally, the adapter consumes the chat stream far enough that the
\* completion stage records the terminal chunk and UsageRecord runs (hold
\* finalized, Usage and Generation posted) before the response ends
C32_ResponsesStreamRecordsUsage ==
  (billing /\ stream /\ ResponsesCompleted /\ step = "finished" /\ UpstreamCompletes) =>
    /\ TerminalRecorded
    /\ "UsageRecord" \in {ran[i] : i \in DOMAIN ran}
    /\ usagePosts = 1 /\ Len(generationPosts) = 1
    /\ (holdReply.status = 200 /\ holdReply.amount > 0) => finalizeCalls = <<"tx">>

\* --------------------- the HTTP surface and the driver it constructs
SurfaceInit ==
  /\ external_model_id \in ModelIds
  /\ enabled \in SUBSET KnownProviders
  /\ openai_compatible \in BOOLEAN
  /\ resolution = Unresolved
  /\ step = "resolve"
  /\ RequestIdle
  /\ YandexIdle /\ ResponsesIdle /\ GigaIdle /\ NormIdle /\ AsmIdle /\ DialectIdle
  /\ hPc = "start"
  /\ hStream \in BOOLEAN
  /\ hModelKnown \in BOOLEAN
  /\ hDrivers = 0
  /\ hClosed = 0
  /\ hStatus = 0

\* get_provider_by_model_id raised: the request ends before any driver
SurfaceResolveFails ==
  /\ step = "resolved"
  /\ hPc = "start"
  /\ resolution.code # 0
  /\ hStatus' = resolution.code
  /\ hPc' = "ended"
  /\ UNCHANGED <<hStream, hModelKnown, hDrivers, hClosed, besideSurface>>

\* container.provider(...): a new driver with its own HTTP client
SurfaceConstruct ==
  /\ step = "resolved"
  /\ hPc = "start"
  /\ resolution.code = 0
  /\ hDrivers' = hDrivers + 1
  /\ hPc' = "constructed"
  /\ UNCHANGED <<hStream, hModelKnown, hClosed, hStatus, besideSurface>>

\* provider.get_model(model_id): a miss raises 404, which leaves the
\* surface through its handlers; its finally clause cleans the context only
SurfaceGetModel ==
  /\ hPc = "constructed"
  /\ IF hModelKnown
       THEN hPc' = "service" /\ UNCHANGED hStatus
       ELSE hPc' = "ended" /\ hStatus' = 404
  /\ UNCHANGED <<hStream, hModelKnown, hDrivers, hClosed, besideSurface>>

\* the service is created; a streaming request is answered with a
\* StreamingResponse around the body generator, a regular one runs the
\* service to its end, whose finally clause closes the driver
SurfaceRespond ==
  /\ hPc = "service"
  /\ IF hStream
       THEN /\ hPc' = "body"
            /\ hStatus' = 200
            /\ UNCHANGED hClosed
       ELSE /\ hPc' = "ended"
            /\ hClosed' = hClosed + FinallyCloseCalls("end")
            /\ \E s \in {200, 500} : hStatus' = s
  /\ UNCHANGED <<hStream, hModelKnown, hDrivers, besideSurface>>

\* the server iterates the body: the service runs inside it, and however
\* it ends its finally clause closes the driver
SurfaceBodyIterated ==
  /\ hPc = "body"
  /\ hPc' = "ended"
  /\ hClosed' = hClosed + FinallyCloseCalls("end")
  /\ UNCHANGED <<hStream, hModelKnown, hDrivers, hStatus, besideSurface>>

\* the response is dropped before its body is iterated: a generator that
\* was never started has entered no try block, so no finally clause runs
SurfaceBodyDropped ==
  /\ hPc = "body"
  /\ hPc' = "ended"
  /\ UNCHANGED <<hStream, hModelKnown, hDrivers, hClosed, hStatus, besideSurface>>

SurfaceNext == Resolve \/ SurfaceResolveFails \/ SurfaceConstruct \/ SurfaceGetModel \/ SurfaceRespond \/ SurfaceBodyIterated \/ SurfaceBodyDropped

SurfaceSpec == SurfaceInit /\ [][SurfaceNext]_vars

\* C37: every provider driver the HTTP surface constructs for a request is
\* closed before the request ends, also when the model lookup fails
\* before the service is created and when the body of the streaming
\* response is never iterated
C37_EveryDriverClosed == hPc = "ended" => hClosed = hDrivers
====
